---- MODULE Spec2Model ----
(***************************************************************************)
(* Verification model of the unraid-recovery-toolkit scripts:              *)
(*   radarr_deleted.py / sonarr_deleted.py   (Pipeline A)                  *)
(*   recovery_plan.py                        (Pipeline B, classification)  *)
(*   recovery_restore.py                     (Pipeline B, restore)         *)
(*   recovery_analysis.py                    (configuration handling)      *)
(*                                                                         *)
(* Strings are modelled as sequences of tokens.  A token is a chunk of     *)
(* characters; the separators "/" and "\\", the blank " " and the offset   *)
(* characters are tokens of their own.  Every alphabet used below is       *)
(* prefix-free (no token is a prefix of another), so equality and          *)
(* startswith on token sequences coincide with equality and startswith on  *)
(* the character strings they spell.                                       *)
(***************************************************************************)
EXTENDS Integers, Sequences, FiniteSets, TLC

VARIABLES
    prog,       \* which script this run executes
    pc,         \* position of the run inside main()
    exitCode,   \* process exit status once pc = "exit" (-1 while running)
    crash,      \* the uncaught exception that ended the run ("" if none)
    \* ---- normalize_root_prefix harness
    nVariant,   \* "movies" (radarr_deleted) or "tv" (sonarr_deleted)
    nIn,        \* the path string given
    nOut1,      \* normalize_root_prefix(nIn)
    nOut2,      \* normalize_root_prefix(nOut1)
    \* ---- local_window_to_utc harness
    wDate,      \* the --date string
    wOff,       \* the --tz-offset string
    wMeant,     \* the date and offset the two strings were written from
    wRes,       \* what local_window_to_utc returned
    \* ---- Pipeline A: radarr_deleted.py / sonarr_deleted.py
    aArgs,      \* command line: api_key present, date, tz_offset, redownload
    aFeed,      \* the service's history, newest first as the service sorts it
    aWindow,    \* (start_utc, end_utc) once resolved
    aPage,      \* find_all_deletions_on_date: page
    aOlder,     \* find_all_deletions_on_date: found_older_than_range
    aDeletions, \* OrderedDict id -> path, as a list of <<id, path>>
    aIdx,       \* position of the status / monitored loop in its list
    aMissing,   \* missing_movies / missing_episodes: <<id, deleted_path>>
    aRestored,  \* restored_*: <<id, deleted_path, current_path>>
    aCaches,    \* sonarr: series_cache and efile_cache of this run
    aFiles,     \* output files: name -> None (not created) or its lines
    aOutDir,    \* whether this run created the out/ directory
    aReqs,      \* HTTP requests issued so far: <<method, endpoint, ids>>, a
                \* probe's series and episode-file lookups with their status
    aPrinted,   \* the lines the redownload step has printed so far: the
                \* text and the number put into it
    aStatus,    \* main's has_file, current_path: what the last probe returned
    \* ---- recovery_plan.py
    pArgs,      \* command line: input_file is a file, base_path, folder
    pInput,     \* the lines of the input file list
    pBackupFile,    \* backup_folders.txt: whether it is a file, and its lines
    pDeletedFiles,  \* the deleted lists given: whether readable, and the lines
    pFs,        \* the paths that exist on the filesystem (absolute, normalized)
    pBackupSet, \* backup_set
    pDeletedSet,    \* deleted_set
    pLine,      \* index of the next line `for line in fin` yields
    pOut,       \* the four output files, once opened: stream -> lines written
    pCount,     \* n_read, n_blank, n_filtered, c_found, c_backup, c_redl, c_missing
    pOutDir,    \* whether this run created the out/ directory
    \* ---- recovery_restore.py
    rArgs,      \* command line: input_file is a file, archive_path,
                \* restore_path, folder, strict_files
    rInput,     \* the lines of the input file list
    rFs,        \* the filesystem: files (path -> content) and directories
    rRun,       \* 1 for the first run of the command, 2 for the run repeating it
    rLine,      \* index of the next line `enumerate(fin, 1)` yields
    rOut,       \* the output files that exist: name -> lines written
    rPrev,      \* the output files as the first run left them
    rCount,     \* total, blanks, filtered, confirmed, missing, r_ok, r_skip, r_err
    rFsLog,     \* the filesystem writes made so far: run, line, op, path
    \* ---- recovery_analysis.py
    anArgs,     \* command line: levels, input_file is a file, folder
    anInput,    \* the lines of the input file list
    anBackupFile,   \* backup_folders.txt: whether it is a file, and its lines
    anLine,     \* index of the next line `for line in f` yields
    anCount,    \* processed, filtered_out, blank_lines
    anCounters, \* level_counters: per level a dict key -> count
    anOutDir,   \* whether this run created the out/ directory
    anBook,     \* the workbook saved: its sheets, <<>> while none is saved
    \* ---- a function, or one of the small scripts, run on its own
    fnArgs,     \* the arguments of the call, or the command line and what the
                \* service holds
    fnRes       \* the values returned so far, by name, or the state of the run

varsCommon == <<prog, pc, exitCode, crash>>
varsNorm   == <<nVariant, nIn, nOut1, nOut2>>
varsWin    == <<wDate, wOff, wMeant, wRes>>
varsA      == <<aArgs, aFeed, aWindow, aPage, aOlder, aDeletions, aIdx, aMissing,
                aRestored, aCaches, aFiles, aOutDir, aReqs, aPrinted, aStatus>>
varsPlan   == <<pArgs, pInput, pBackupFile, pDeletedFiles, pFs, pBackupSet,
                pDeletedSet, pLine, pOut, pCount, pOutDir>>
varsRestore == <<rArgs, rInput, rFs, rRun, rLine, rOut, rPrev, rCount, rFsLog>>
varsAnalysis == <<anArgs, anInput, anBackupFile, anLine, anCount, anCounters,
                  anOutDir, anBook>>
varsFn     == <<fnArgs, fnRes>>
vars       == <<varsCommon, varsNorm, varsWin, varsA, varsPlan, varsRestore,
                varsAnalysis, varsFn>>

\* the variables a harness or script leaves alone: those of the others
otherThanNorm == <<varsWin, varsA, varsPlan, varsRestore, varsAnalysis, varsFn>>
otherThanWin  == <<varsNorm, varsA, varsPlan, varsRestore, varsAnalysis, varsFn>>
otherThanA    == <<varsNorm, varsWin, varsPlan, varsRestore, varsAnalysis, varsFn>>
otherThanPlan == <<varsNorm, varsWin, varsA, varsRestore, varsAnalysis, varsFn>>
otherThanRestore == <<varsNorm, varsWin, varsA, varsPlan, varsAnalysis, varsFn>>
otherThanAnalysis == <<varsNorm, varsWin, varsA, varsPlan, varsRestore, varsFn>>
otherThanFn == <<varsNorm, varsWin, varsA, varsPlan, varsRestore, varsAnalysis>>

(***************************************************************************)
(* Bounds of the model                                                     *)
(***************************************************************************)
MaxPathLen == 5     \* tokens in a path given to normalize_root_prefix
NumYears   == 2     \* calendar years the window dates are drawn from
MaxFeed    == 3     \* records in the service's history
PageSize   == 2     \* records per history page (the scripts ask for 1000)
MaxPlanLines == 3   \* lines in the file list given to recovery_plan
MaxRestoreLines == 2    \* lines in the file list given to recovery_restore
MaxAnalysisLines == 2   \* lines in the file list given to recovery_analysis

(***************************************************************************)
(* String helpers (Python str methods on token sequences)                  *)
(***************************************************************************)
None == <<"None">>          \* Python None (no string is spelled this way)

\* the variables of a harness or script that is not the one running
IdleNorm == nVariant = "movies" /\ nIn = <<>> /\ nOut1 = None /\ nOut2 = None

IdleWin == wDate = <<>> /\ wOff = <<>> /\ wMeant = <<>> /\ wRes = None

IdleA ==
    /\ aArgs = <<>> /\ aFeed = <<>> /\ aWindow = None /\ aPage = 0
    /\ aOlder = FALSE /\ aDeletions = <<>> /\ aIdx = 0 /\ aMissing = <<>>
    /\ aRestored = <<>> /\ aCaches = <<>> /\ aFiles = <<>> /\ aOutDir = FALSE
    /\ aReqs = <<>> /\ aPrinted = <<>> /\ aStatus = <<>>

IdlePlan ==
    /\ pArgs = <<>> /\ pInput = <<>> /\ pBackupFile = <<>> /\ pDeletedFiles = <<>>
    /\ pFs = {} /\ pBackupSet = {} /\ pDeletedSet = {} /\ pLine = 0
    /\ pOut = <<>> /\ pCount = <<>> /\ pOutDir = FALSE

IdleRestore ==
    /\ rArgs = <<>> /\ rInput = <<>> /\ rFs = <<>> /\ rRun = 0 /\ rLine = 0
    /\ rOut = <<>> /\ rPrev = <<>> /\ rCount = <<>> /\ rFsLog = <<>>

IdleAnalysis ==
    /\ anArgs = <<>> /\ anInput = <<>> /\ anBackupFile = <<>> /\ anLine = 0
    /\ anCount = <<>> /\ anCounters = <<>> /\ anOutDir = FALSE /\ anBook = <<>>

IdleFn == fnArgs = <<>> /\ fnRes = <<>>

IdleOthers(me) ==
    /\ me = "norm" \/ IdleNorm
    /\ me = "win" \/ IdleWin
    /\ me = "A" \/ IdleA
    /\ me = "plan" \/ IdlePlan
    /\ me = "restore" \/ IdleRestore
    /\ me = "analysis" \/ IdleAnalysis
    /\ me = "fn" \/ IdleFn

SeqsUpTo(S, n) == UNION {[1..k -> S] : k \in 0..n}

\* s.startswith(pre)
StartsWith(s, pre) ==
    /\ Len(pre) <= Len(s)
    /\ SubSeq(s, 1, Len(pre)) = pre

\* s.endswith(suf)
EndsWith(s, suf) ==
    /\ Len(suf) <= Len(s)
    /\ SubSeq(s, Len(s) - Len(suf) + 1, Len(s)) = suf

\* s.replace(a, b) for one-token a, b
Replace(s, a, b) == [i \in 1..Len(s) |-> IF s[i] = a THEN b ELSE s[i]]

\* s.split(sep): the list of (possibly empty) pieces between separators
RECURSIVE SplitAcc(_, _, _, _)
SplitAcc(s, sep, cur, acc) ==
    IF s = <<>> THEN Append(acc, cur)
    ELSE IF Head(s) = sep
         THEN SplitAcc(Tail(s), sep, <<>>, Append(acc, cur))
         ELSE SplitAcc(Tail(s), sep, Append(cur, Head(s)), acc)

Split(s, sep) == SplitAcc(s, sep, <<>>, <<>>)

\* s.rstrip(c) and s.lstrip(c)
RECURSIVE RStrip(_, _)
RStrip(s, c) ==
    IF s # <<>> /\ s[Len(s)] = c THEN RStrip(SubSeq(s, 1, Len(s) - 1), c) ELSE s

RECURSIVE LStrip(_, _)
LStrip(s, c) == IF s # <<>> /\ Head(s) = c THEN LStrip(Tail(s), c) ELSE s

\* sep.join(parts)
RECURSIVE Join(_, _)
Join(parts, sep) ==
    IF parts = <<>> THEN <<>>
    ELSE IF Len(parts) = 1 THEN parts[1]
    ELSE parts[1] \o <<sep>> \o Join(Tail(parts), sep)

\* [x for x in parts if x]
RECURSIVE NonEmpty(_)
NonEmpty(parts) ==
    IF parts = <<>> THEN <<>>
    ELSE IF Head(parts) = <<>> THEN NonEmpty(Tail(parts))
    ELSE <<Head(parts)>> \o NonEmpty(Tail(parts))

\* str.lower() of one token: the tokens with upper-case letters used below
LowerTok(t) ==
    CASE t = "Movies" -> "movies"
      [] t = "Films"  -> "films"
      [] t = "TV"     -> "tv"
      [] t = "Shows"  -> "shows"
      [] t = "MNT"    -> "mnt"
      [] t = "Al"     -> "al"
      [] t = "AL"     -> "al"
      [] t = "Bond"   -> "bond"
      [] t \in {"Movie", "MOVIE"}     -> "movie"
      [] t \in {"Episode", "EPISODE"} -> "episode"
      [] t \in {"File", "FILE"}       -> "file"
      [] t \in {"Deleted", "DELETED"} -> "deleted"
      [] OTHER        -> t

Lower(s) == [i \in 1..Len(s) |-> LowerTok(s[i])]

(***************************************************************************)
(* Path normalization (radarr_deleted.py / sonarr_deleted.py)              *)
(***************************************************************************)
split_path_anysep(p) == NonEmpty(Split(Replace(p, "\\", "/"), "/"))

\* the root names each script recognises, and the name it forces
RootNames(variant) ==
    IF variant = "movies" THEN {<<"movies">>, <<"films">>}
                          ELSE {<<"tv">>, <<"shows">>}

MountNames == {<<"mnt">>, <<"data">>, <<"pool">>}

\* the root-stripping branches without the "root already first" branch
\* (the elif ... pass of lines 46-47 dropped)
StripRootsNoPass(segs, lowers, variant) ==
    IF lowers[1] \in MountNames /\ Len(lowers) >= 3 /\ lowers[3] \in RootNames(variant)
        THEN SubSeq(segs, 3, Len(segs))
    ELSE IF Len(lowers) >= 2 /\ lowers[2] \in RootNames(variant)
        THEN SubSeq(segs, 2, Len(segs))
    ELSE segs

\* the list of segments after the root-stripping branches
StripRoots(segs, lowers, variant) ==
    IF lowers[1] \in MountNames /\ Len(lowers) >= 3 /\ lowers[3] \in RootNames(variant)
        THEN SubSeq(segs, 3, Len(segs))
    ELSE IF lowers[1] \in RootNames(variant) THEN segs
    ELSE IF Len(lowers) >= 2 /\ lowers[2] \in RootNames(variant)
        THEN SubSeq(segs, 2, Len(segs))
    ELSE segs

normalize_root_prefix(p, variant) ==
    LET segs   == split_path_anysep(p)
        lowers == [i \in 1..Len(segs) |-> Lower(segs[i])]
    IN  IF segs = <<>> THEN p
        ELSE LET kept == StripRoots(segs, lowers, variant)
             IN  Join([kept EXCEPT ![1] = <<variant>>], "/")

(***************************************************************************)
(* Time / window helpers (radarr_deleted.py / sonarr_deleted.py)           *)
(* A point in time is a number of minutes since 0001-01-01T00:00 (the      *)
(* proleptic Gregorian ordinal of datetime, in minutes); an aware datetime *)
(* is [wall |-> local wall-clock minutes, off |-> UTC offset in minutes].  *)
(***************************************************************************)
Digits == {"0", "1", "2", "3", "4", "5", "6", "7", "8", "9"}

DigitVal(c) ==
    CASE c = "0" -> 0 [] c = "1" -> 1 [] c = "2" -> 2 [] c = "3" -> 3
      [] c = "4" -> 4 [] c = "5" -> 5 [] c = "6" -> 6 [] c = "7" -> 7
      [] c = "8" -> 8 [] c = "9" -> 9

DigitTok(n) == CHOOSE c \in Digits : DigitVal(c) = n

\* a non-empty run of decimal digits
IsDigits(s) == s # <<>> /\ \A i \in 1..Len(s) : s[i] \in Digits

\* int(s) of a run of digits
RECURSIVE IntOf(_)
IntOf(s) == IF s = <<>> THEN 0 ELSE 10 * IntOf(SubSeq(s, 1, Len(s) - 1)) + DigitVal(s[Len(s)])

ValueError == [ok |-> FALSE]

IsLeap(y) == (y % 4 = 0) /\ ((y % 100 # 0) \/ (y % 400 = 0))

DaysInMonth(y, m) ==
    IF m = 2 THEN (IF IsLeap(y) THEN 29 ELSE 28)
    ELSE IF m \in {4, 6, 9, 11} THEN 30 ELSE 31

RECURSIVE DaysBeforeMonth(_, _)
DaysBeforeMonth(y, m) ==
    IF m = 1 THEN 0 ELSE DaysBeforeMonth(y, m - 1) + DaysInMonth(y, m - 1)

DaysBeforeYear(y) ==
    LET p == y - 1 IN p * 365 + (p \div 4) - (p \div 100) + (p \div 400)

\* date.toordinal(), counted from 0
Ordinal(y, m, d) == DaysBeforeYear(y) + DaysBeforeMonth(y, m) + d - 1

\* the sign rule with the two branches exchanged
OffsetSignSwapped(tzoff) == IF StartsWith(tzoff, <<"+">>) THEN -1 ELSE 1

\* line 11: sign = 1 if tzoff.startswith("+") else -1
OffsetSign(tzoff) == IF StartsWith(tzoff, <<"+">>) THEN 1 ELSE -1

\* int(s): surrounding blanks dropped, an optional sign, then decimal digits
int_str(s) ==
    LET t      == LStrip(RStrip(s, " "), " ")
        signed == t # <<>> /\ Head(t) \in {"+", "-"}
        digits == IF signed THEN Tail(t) ELSE t
    IN  IF ~IsDigits(digits) THEN ValueError
        ELSE [ok |-> TRUE,
              val |-> (IF signed /\ Head(t) = "-" THEN -1 ELSE 1) * IntOf(digits)]

\* parse_offset: the UTC offset in minutes, or ValueError
parse_offset(tzoff) ==
    LET sign  == OffsetSign(tzoff)
        parts == Split(SubSeq(tzoff, 2, Len(tzoff)), ":")
    IN  IF Len(parts) # 2 THEN ValueError
        ELSE LET hh == int_str(parts[1])
                 mm == int_str(parts[2])
             IN  IF ~hh.ok \/ ~mm.ok THEN ValueError
                 ELSE LET off == sign * (60 * hh.val + mm.val)
                      IN  IF off <= -1440 \/ off >= 1440 THEN ValueError
                          ELSE [ok |-> TRUE, off |-> off]

\* datetime.strptime(ymd, "%Y-%m-%d"): wall-clock minutes of that midnight
strptime_ymd(ymd) ==
    LET parts == Split(ymd, "-")
    IN  IF Len(parts) # 3 THEN ValueError
        ELSE IF \/ ~IsDigits(parts[1]) \/ Len(parts[1]) # 4
                \/ ~IsDigits(parts[2]) \/ Len(parts[2]) > 2
                \/ ~IsDigits(parts[3]) \/ Len(parts[3]) > 2
             THEN ValueError
        ELSE LET y == IntOf(parts[1])
                 m == IntOf(parts[2])
                 d == IntOf(parts[3])
             IN  IF y < 1 \/ m < 1 \/ m > 12 \/ d < 1 THEN ValueError
                 ELSE IF d > DaysInMonth(y, m) THEN ValueError
                 ELSE [ok |-> TRUE, wall |-> 1440 * Ordinal(y, m, d)]

\* aware.astimezone(timezone.utc): the same instant on the UTC wall clock
astimezone_utc(aware) == aware.wall - aware.off

local_window_to_utc(ymd, tzoff) ==
    LET tz == parse_offset(tzoff)
    IN  IF ~tz.ok THEN ValueError
        ELSE LET naive == strptime_ymd(ymd)
             IN  IF ~naive.ok THEN ValueError
                 ELSE LET start_local == [wall |-> naive.wall, off |-> tz.off]
                          end_local   == [wall |-> start_local.wall + 1440,
                                          off  |-> start_local.off]
                      IN  [ok    |-> TRUE,
                           start |-> astimezone_utc(start_local),
                           end   |-> astimezone_utc(end_local)]

\* "%04d-%02d-%02d" and "+HH:MM" / "-HH:MM" as token strings
TwoDigits(n) == <<DigitTok(n \div 10), DigitTok(n % 10)>>

FormatDate(y, m, d) ==
    TwoDigits(y \div 100) \o TwoDigits(y % 100) \o <<"-">> \o TwoDigits(m)
        \o <<"-">> \o TwoDigits(d)

FormatOffset(sign, hh, mm) ==
    <<IF sign = 1 THEN "+" ELSE "-">> \o TwoDigits(hh) \o <<":">> \o TwoDigits(mm)

(***************************************************************************)
(* Harness for local_window_to_utc                                         *)
(***************************************************************************)
WinYears == {2023 + k : k \in 1..NumYears}

WinDates == {<<y, m, d>> \in WinYears \X (1..12) \X (1..31) : d <= DaysInMonth(y, m)}

WinOffsets == {-1, 1} \X {0, 4, 5, 14, 23} \X {0, 30, 59}

InitWin ==
    /\ prog = "window"
    /\ pc = "start"
    /\ exitCode = -1
    /\ crash = ""
    /\ \E dt \in WinDates, o \in WinOffsets :
          /\ wMeant = [y |-> dt[1], m |-> dt[2], d |-> dt[3],
                       sign |-> o[1], hh |-> o[2], mm |-> o[3]]
          /\ wDate = FormatDate(dt[1], dt[2], dt[3])
          /\ wOff = FormatOffset(o[1], o[2], o[3])
    /\ wRes = None
    /\ IdleOthers("win")

ResolveWindow ==
    /\ prog = "window" /\ pc = "start"
    /\ wRes' = local_window_to_utc(wDate, wOff)
    /\ pc' = "resolved"
    /\ UNCHANGED <<prog, exitCode, crash, wDate, wOff, wMeant, otherThanWin>>

NextWin == ResolveWindow

SpecWin == InitWin /\ [][NextWin]_vars

(***************************************************************************)
(* The same function on arbitrary --date and --tz-offset strings           *)
(***************************************************************************)
MaxOffLen == 6

OffTokens == {"+", "-", "0", "4", ":"}

RawOffsets == SeqsUpTo(OffTokens, MaxOffLen)

DropAt(s, i) == SubSeq(s, 1, i - 1) \o SubSeq(s, i + 1, Len(s))

\* 2025-03-10 and every string it becomes when one character is lost
RawDates ==
    LET d == FormatDate(2025, 3, 10)
    IN  {d} \cup {DropAt(d, i) : i \in 1..Len(d)}

InitWinRaw ==
    /\ prog = "window"
    /\ pc = "start"
    /\ exitCode = -1
    /\ crash = ""
    /\ wMeant = None
    /\ wDate \in RawDates
    /\ wOff \in RawOffsets
    /\ wRes = None
    /\ IdleOthers("win")

SpecWinRaw == InitWinRaw /\ [][NextWin]_vars

\* the form +HH:MM or -HH:MM
OffsetForm(s) ==
    /\ Len(s) = 6
    /\ s[1] \in {"+", "-"}
    /\ s[2] \in Digits /\ s[3] \in Digits
    /\ s[4] = ":"
    /\ s[5] \in Digits /\ s[6] \in Digits

\* the form YYYY-MM-DD
DateForm(s) ==
    /\ Len(s) = 10
    /\ \A i \in {1, 2, 3, 4, 6, 7, 9, 10} : s[i] \in Digits
    /\ s[5] = "-" /\ s[8] = "-"

\* C11: local_window_to_utc fails with an input error on every malformed
\* date and on every malformed offset (anything not of the form +HH:MM or
\* -HH:MM, such as an offset without a sign); it never returns a window
\* for a malformed input.
C11_MalformedInputIsRejected ==
    pc = "resolved" /\ (~DateForm(wDate) \/ ~OffsetForm(wOff)) => ~wRes.ok

\* minutes since 0001-01-01T00:00 of y-m-d hh:mi, counted from the calendar
\* (2024-01-01 is day 738885; 365 days a year, one more in leap years),
\* independently of Ordinal
RECURSIVE DaysSinceYear1(_)
DaysSinceYear1(y) ==
    IF y = 2024 THEN 738885
    ELSE IF y > 2024 THEN DaysSinceYear1(y - 1) + (IF IsLeap(y - 1) THEN 366 ELSE 365)
    ELSE DaysSinceYear1(y + 1) - (IF IsLeap(y) THEN 366 ELSE 365)

Instant(y, m, d, hh, mi) ==
    1440 * (DaysSinceYear1(y) + DaysBeforeMonth(y, m) + d - 1) + 60 * hh + mi

\* C8: for every valid date and offset +HH:MM / -HH:MM the window starts at
\* local midnight expressed in UTC (local midnight minus the offset), ends
\* 24 h later, and start < end; 2025-03-10 at -04:00 gives
\* 2025-03-10T04:00Z .. 2025-03-11T04:00Z.
C8_WindowIsLocalDayInUtc ==
    pc = "resolved" =>
        /\ wRes.ok
        /\ wRes.start = Instant(wMeant.y, wMeant.m, wMeant.d, 0, 0)
                          - wMeant.sign * (60 * wMeant.hh + wMeant.mm)
        /\ wRes.end = wRes.start + 1440
        /\ wRes.start < wRes.end
        /\ (wDate = FormatDate(2025, 3, 10) /\ wOff = FormatOffset(-1, 4, 0)
               => /\ wRes.start = Instant(2025, 3, 10, 4, 0)
                  /\ wRes.end = Instant(2025, 3, 11, 4, 0))

\* the window of 2025-03-10 at -04:00 was resolved
C8_Witness ==
    /\ pc = "resolved"
    /\ wDate = <<"2", "0", "2", "5", "-", "0", "3", "-", "1", "0">>
    /\ wOff = <<"-", "0", "4", ":", "0", "0">>
    /\ wRes.ok

(***************************************************************************)
(* Harness for normalize_root_prefix: apply it once, then to its own       *)
(* result.                                                                 *)
(***************************************************************************)
NormTokens == {"/", "\\", "mnt", "movies", "Films", "tv", "x"}

InitNorm ==
    /\ prog = "normalize"
    /\ pc = "start"
    /\ exitCode = -1
    /\ crash = ""
    /\ nVariant \in {"movies", "tv"}
    /\ nIn \in SeqsUpTo(NormTokens, MaxPathLen)
    /\ nOut1 = None
    /\ nOut2 = None
    /\ IdleOthers("norm")

NormalizeOnce ==
    /\ prog = "normalize" /\ pc = "start"
    /\ nOut1' = normalize_root_prefix(nIn, nVariant)
    /\ pc' = "once"
    /\ UNCHANGED <<prog, exitCode, crash, nVariant, nIn, nOut2, otherThanNorm>>

NormalizeTwice ==
    /\ prog = "normalize" /\ pc = "once"
    /\ nOut2' = normalize_root_prefix(nOut1, nVariant)
    /\ pc' = "twice"
    /\ UNCHANGED <<prog, exitCode, crash, nVariant, nIn, nOut1, otherThanNorm>>

NextNorm == NormalizeOnce \/ NormalizeTwice

SpecNorm == InitNorm /\ [][NextNorm]_vars

\* a string: a sequence of tokens none of which is the None marker
IsStr(s) == s \in Seq(NormTokens \cup {"movies", "tv"})

\* C7: normalize_root_prefix is total (always returns a string) and
\* idempotent (normalizing its own result returns that result), in the
\* movies and in the tv variant.
C7_NormalizeIdempotentTotal ==
    /\ (pc \in {"once", "twice"} => /\ nOut1 # None
                                     /\ IsStr(nOut1))
    /\ (pc = "twice" => nOut2 = nOut1)

\* a mount-prefixed, mixed-separator, mixed-case path was normalized twice
C7_Witness ==
    /\ pc = "twice"
    /\ nIn = <<"mnt", "\\", "x", "/", "Films">>
    /\ nVariant = "movies"
    /\ nOut2 = <<"movies">>

(***************************************************************************)
(* Pipeline A: radarr_deleted.py ("radarr") / sonarr_deleted.py ("sonarr") *)
(***************************************************************************)
PathVariant(script) == IF script = "radarr" THEN "movies" ELSE "tv"

\* the eventType each script looks for, as the service spells it
\* ("movieFileDeleted", "episodeFileDeleted"), word by word
DeletedKind(script) ==
    IF script = "radarr" THEN <<"movie", "File", "Deleted">>
                         ELSE <<"episode", "File", "Deleted">>

\* str.lower() of an eventType
LowerKind(k) == Lower(k)

\* the literal each script compares the lowered eventType with
WantedKind(script) ==
    IF script = "radarr" THEN <<"movie", "file", "deleted">>
                         ELSE <<"episode", "file", "deleted">>

\* the test asked for by the words "substring match": 'deleted' in event_type
IsDeletionKindBySubstring(script, kind) ==
    \E i \in 1..Len(kind) : LowerKind(kind)[i] = "deleted"

\* radarr line 117, sonarr line 119: event_type == "moviefiledeleted"
IsDeletionKind(script, kind) == LowerKind(kind) = WantedKind(script)

DefaultDate == <<"2", "0", "2", "5", "-", "0", "3", "-", "1", "0">>
DefaultOff  == <<"-", "0", "4", ":", "0", "0">>
WinStart    == local_window_to_utc(DefaultDate, DefaultOff).start
WinEnd      == local_window_to_utc(DefaultDate, DefaultOff).end

\* raw paths the service reports
RawA == <<"/", "mnt", "/", "user", "/", "movies", "/", "A">>
RawB == <<"\\", "tv", "\\", "B">>

\* A history record.  date: [form, t] with form "aware" (ISO-8601 with Z or
\* an offset, t its instant), "naive" (ISO-8601 without offset), "bad" (not
\* ISO-8601) or "none" (absent or empty).  id 0: absent.  nested: radarr's
\* rec["movie"]["id"].  path: rec["data"]["path"];  title: rec["sourceTitle"].
Rec(form, t, kind, id, path) ==
    [date |-> [form |-> form, t |-> t], kind |-> kind, id |-> id, nested |-> 0,
     path |-> path, title |-> <<>>]

\* well-formed records: deletions at the window's first and last minute, just
\* before it and just after it, and a non-deletion inside it
WellFormedRecords(script) ==
    LET del == DeletedKind(script)
    IN  { Rec("aware", WinStart, del, 1, RawA),
          Rec("aware", WinEnd - 1, del, 1, RawB),
          Rec("aware", WinStart, del, 2, RawB),
          Rec("aware", WinStart - 1, del, 2, RawA),
          Rec("aware", WinEnd, del, 1, RawA),
          Rec("aware", WinStart, <<"grabbed">>, 2, RawA) }

\* in-window deletions with one field absent, malformed or given under its
\* fallback name
OddRecords(script) ==
    LET del == DeletedKind(script)
    IN  { Rec("aware", WinStart, del, 0, RawA),
          Rec("aware", WinStart, del, 2, <<>>),
          Rec("none", 0, del, 2, RawA),
          Rec("bad", 0, del, 2, RawA),
          Rec("naive", WinStart, del, 2, RawA),
          [Rec("aware", WinStart, del, 0, <<>>) EXCEPT !.nested = 2, !.title = RawA] }

InWindow(t, w) == w.start <= t /\ t < w.end

\* lines 119 / 121: the entity id of a record (0: none)
RecId(script, rec) ==
    IF script = "radarr" THEN (IF rec.id # 0 THEN rec.id ELSE rec.nested)
                         ELSE rec.id

\* lines 124-127: data.path or sourceTitle or ... or ""
RecRawPath(rec) == IF rec.path # <<>> THEN rec.path ELSE rec.title

\* line 131: deletions[id] = path on an OrderedDict: a new key is appended,
\* an existing key keeps its position and takes the new value
DictSet(d, id, path) ==
    IF \E i \in 1..Len(d) : d[i][1] = id
        THEN [i \in 1..Len(d) |-> IF d[i][1] = id THEN <<id, path>> ELSE d[i]]
        ELSE Append(d, <<id, path>>)

DictKeys(d) == {d[i][1] : i \in 1..Len(d)}

DictGet(d, id) == (CHOOSE e \in {d[i] : i \in 1..Len(d)} : e[1] = id)[2]

\* lines 100-135: the loop over one page's records.  st is
\* [del, older, has, crash]: deletions, found_older_than_range,
\* page_has_target_date, and whether an exception escaped the loop.
ScanRecord(script, w, st, rec) ==
    IF st.crash THEN st
    ELSE IF rec.date.form \in {"none", "bad"} THEN st
    ELSE IF rec.date.form = "naive" THEN [st EXCEPT !.crash = TRUE]
    ELSE IF InWindow(rec.date.t, w)
        THEN LET id  == RecId(script, rec)
                 raw == RecRawPath(rec)
             IN  IF IsDeletionKind(script, rec.kind) /\ id # 0 /\ raw # <<>>
                    THEN [st EXCEPT !.has = TRUE,
                                    !.del = DictSet(st.del, id,
                                        normalize_root_prefix(raw, PathVariant(script)))]
                    ELSE [st EXCEPT !.has = TRUE]
    ELSE IF rec.date.t < w.start THEN [st EXCEPT !.older = TRUE]
    ELSE st

RECURSIVE ScanRecords(_, _, _, _)
ScanRecords(script, w, st, recs) ==
    IF recs = <<>> THEN st
    ELSE ScanRecords(script, w, ScanRecord(script, w, st, Head(recs)), Tail(recs))

\* the service's answer to GET /api/v3/history?page=n&pageSize=PageSize:
\* a paging resource whose "records" is this slice of the history
PageOf(feed, n) ==
    SubSeq(feed, (n - 1) * PageSize + 1,
           IF n * PageSize < Len(feed) THEN n * PageSize ELSE Len(feed))

\* the histories: up to MaxFeed records, at most one of them odd
Feeds(script) ==
    { f \in SeqsUpTo(WellFormedRecords(script) \cup OddRecords(script), MaxFeed) :
        Cardinality({i \in 1..Len(f) : f[i] \in OddRecords(script)}) <= 1 }

\* the command lines: a complete one with or without --redownload, one
\* without API key, one with a malformed --date
ArgSets ==
    LET args(key, date, redl) ==
            [api_key |-> key, date |-> date, tz_offset |-> DefaultOff, redownload |-> redl]
    IN  { args(TRUE, DefaultDate, FALSE), args(TRUE, DefaultDate, TRUE),
          args(FALSE, DefaultDate, FALSE), args(TRUE, <<"2", "0", "2", "5">>, TRUE) }

\* has_file, current_path before the first probe
NotProbed == [has |-> FALSE, path |-> None]

InitA ==
    /\ prog \in {"radarr", "sonarr"}
    /\ pc = "start"
    /\ exitCode = -1
    /\ crash = ""
    /\ aArgs \in ArgSets
    /\ aFeed \in Feeds(prog)
    /\ aWindow = None
    /\ aPage = 0
    /\ aOlder = FALSE
    /\ aDeletions = <<>>
    /\ aIdx = 0
    /\ aMissing = <<>>
    /\ aRestored = <<>>
    /\ aCaches = [series |-> <<>>, efile |-> <<>>]
    /\ aFiles = [missing |-> None, restored |-> None]
    /\ aOutDir = FALSE
    /\ aReqs = <<>>
    /\ aPrinted = <<>>
    /\ aStatus = NotProbed
    /\ IdleOthers("A")

IsA == prog \in {"radarr", "sonarr"}

\* the next statement of main
Goto(label) == pc' = label /\ UNCHANGED <<exitCode, crash>>

\* sys.exit(code), or return from main (0)
Exit(code) == pc' = "exit" /\ exitCode' = code /\ UNCHANGED crash

\* an exception nobody catches: traceback, exit status 1
Raise(exc) == pc' = "exit" /\ exitCode' = 1 /\ crash' = exc

\* main, lines 245-259 (radarr) / 256-274 (sonarr): the API key check, the
\* out/ directory (sonarr), the session and the window
AStart ==
    /\ IsA /\ pc = "start"
    /\ IF ~aArgs.api_key
          THEN Exit(2) /\ UNCHANGED <<aWindow, aPage, aOutDir>>
          ELSE LET w == local_window_to_utc(aArgs.date, aArgs.tz_offset)
               IN  /\ aOutDir' = (prog = "sonarr")
                   /\ IF w.ok
                         THEN /\ aWindow' = [start |-> w.start, end |-> w.end]
                              /\ aPage' = 1
                              /\ Goto("scan")
                         ELSE Raise("ValueError") /\ UNCHANGED <<aWindow, aPage>>
    /\ UNCHANGED <<prog, aArgs, aFeed, aOlder, aDeletions, aIdx, aMissing, aRestored,
                   aCaches, aFiles, aReqs, aPrinted, aStatus,
                   otherThanA>>

\* the tokens of the paths Pipeline A writes, in the order of their spelling
TokOrder == <<"(root)", "/", "A", "B", "S", "a.mkv", "b.mkv", "e1.mkv", "mnt",
              "movies", "new", "old", "tv", "user", "x">>

TokRank(t) == CHOOSE i \in 1..Len(TokOrder) : TokOrder[i] = t

\* a < b on strings
RECURSIVE StrLess(_, _)
StrLess(a, b) ==
    IF b = <<>> THEN FALSE
    ELSE IF a = <<>> THEN TRUE
    ELSE IF Head(a) = Head(b) THEN StrLess(Tail(a), Tail(b))
    ELSE TokRank(Head(a)) < TokRank(Head(b))

\* sorted(rows, key=lambda x: x[k]): stable insertion by the k-th field
RECURSIVE InsertSorted(_, _, _)
InsertSorted(sorted, row, k) ==
    IF sorted = <<>> THEN <<row>>
    ELSE IF StrLess(row[k], Head(sorted)[k]) THEN <<row>> \o sorted
    ELSE <<Head(sorted)>> \o InsertSorted(Tail(sorted), row, k)

RECURSIVE SortedBy(_, _)
SortedBy(rows, k) ==
    IF rows = <<>> THEN <<>>
    ELSE InsertSorted(SortedBy(SubSeq(rows, 1, Len(rows) - 1), k), rows[Len(rows)], k)

Column(rows, k) == [i \in 1..Len(rows) |-> rows[i][k]]

\* files.sort(key=size, reverse=True); files[0]: the first largest file
LargestFile(files) ==
    LET i == CHOOSE j \in 1..Len(files) :
                 /\ \A k \in 1..Len(files) : files[k].size <= files[j].size
                 /\ \A k \in 1..(j - 1) : files[k].size < files[j].size
    IN  files[i]

\* What the service answers while one movie is probed (radarr):
\* mget / fget: "exc" (the request raises), 404, or 200 with the body given
MovieFile(size, path, rel) == [size |-> size, path |-> path, rel |-> rel]

RadarrAnswers ==
    LET ans(mget, hasFile, fget, files) ==
            [mget |-> mget, hasFile |-> hasFile, moviePath |-> <<"/", "movies", "/", "A">>,
             fget |-> fget, files |-> files]
    IN  { ans("exc", FALSE, "exc", <<>>),
          ans("404", FALSE, "exc", <<>>),
          ans("200", FALSE, "exc", <<>>),
          ans("200", TRUE, "404", <<>>),
          ans("200", TRUE, "exc", <<>>),
          ans("200", TRUE, "200", <<>>),
          ans("200", TRUE, "200",
              << MovieFile(1, <<"/", "mnt", "/", "user", "/", "movies", "/", "A", "/", "old">>, <<>>),
                 MovieFile(2, <<"/", "movies", "/", "A", "/", "new">>, <<"new">>) >>),
          ans("200", TRUE, "200", << MovieFile(1, <<>>, <<"a.mkv">>) >>),
          ans("200", TRUE, "200", << MovieFile(1, <<>>, <<>>) >>) }

\* get_current_movie_status: [has, path, reqs] - has_file, current_path (or
\* None) and the requests it issued
get_current_movie_status(movie_id, a) ==
    LET g1 == <<"GET", "movie", movie_id>>
        g2 == <<"GET", "moviefile", movie_id>>
        no(reqs) == [has |-> FALSE, path |-> None, reqs |-> reqs]
    IN  IF a.mget # "200" THEN no(<<g1>>)
        ELSE IF ~a.hasFile THEN no(<<g1>>)
        ELSE IF a.fget # "200" THEN no(<<g1, g2>>)
        ELSE IF a.files = <<>> THEN no(<<g1, g2>>)
        ELSE LET cur   == LargestFile(a.files)
                 first == IF cur.path # <<>> THEN cur.path ELSE cur.rel
                 current_path ==
                     IF first # <<>> THEN first
                     ELSE IF a.moviePath # <<>> /\ cur.rel # <<>>
                         THEN RStrip(a.moviePath, "/") \o <<"/">> \o LStrip(cur.rel, "/")
                         ELSE <<>>
             IN  IF current_path # <<>>
                    THEN [has |-> TRUE, path |-> normalize_root_prefix(current_path, "movies"),
                          reqs |-> <<g1, g2>>]
                    ELSE [has |-> TRUE, path |-> None, reqs |-> <<g1, g2>>]

\* What the service answers while one episode is probed (sonarr)
SonarrAnswers ==
    LET ans(eget, hasFile, sid, fid, sget, spath, fget, rel) ==
            [eget |-> eget, hasFile |-> hasFile, seriesId |-> sid, episodeFileId |-> fid,
             sget |-> sget, seriesPath |-> spath, fget |-> fget, rel |-> rel]
        sp == <<"/", "mnt", "/", "user", "/", "tv", "/", "S", "/">>
    IN  { ans("exc", FALSE, 0, 0, "exc", <<>>, "exc", <<>>),
          ans("404", FALSE, 0, 0, "exc", <<>>, "exc", <<>>),
          ans("200", FALSE, 1, 1, "exc", <<>>, "exc", <<>>),
          ans("200", TRUE, 0, 1, "exc", <<>>, "exc", <<>>),
          ans("200", TRUE, 1, 1, "404", <<>>, "exc", <<>>),
          ans("200", TRUE, 1, 1, "200", sp, "404", <<>>),
          ans("200", TRUE, 1, 1, "200", sp, "200", <<"/", "e1.mkv">>),
          ans("200", TRUE, 1, 1, "200", <<>>, "200", <<"e1.mkv">>) }

\* a cache that is never read
CacheNeverHit(cache, id) == FALSE

\* `series_id in series_cache`, `episode_file_id in efile_cache`
CacheHit(cache, id) == id \in DictKeys(cache)

\* get_current_episode_status: [has, path, reqs, caches]; the requests for
\* the series and the episode file are logged with the status answered
get_current_episode_status(episode_id, a, caches) ==
    LET g1 == <<"GET", "episode", episode_id>>
        g2 == <<"GET", "series", a.seriesId, a.sget>>
        g3 == <<"GET", "episodefile", a.episodeFileId, a.fget>>
        no(reqs, c) == [has |-> FALSE, path |-> None, reqs |-> reqs, caches |-> c]
    IN  IF a.eget # "200" THEN no(<<g1>>, caches)
        ELSE IF ~a.hasFile THEN no(<<g1>>, caches)
        ELSE IF a.seriesId = 0 \/ a.episodeFileId = 0 THEN no(<<g1>>, caches)
        ELSE LET sHit == CacheHit(caches.series, a.seriesId)
             IN  IF ~sHit /\ a.sget # "200" THEN no(<<g1, g2>>, caches)
                 ELSE
        LET series_path == IF sHit THEN DictGet(caches.series, a.seriesId) ELSE a.seriesPath
            c1    == IF sHit THEN caches
                     ELSE [caches EXCEPT !.series = DictSet(@, a.seriesId, series_path)]
            r1    == IF sHit THEN <<g1>> ELSE <<g1, g2>>
            fHit  == CacheHit(caches.efile, a.episodeFileId)
        IN  IF ~fHit /\ a.fget # "200" THEN no(Append(r1, g3), c1)
            ELSE
        LET relative_path == IF fHit THEN DictGet(caches.efile, a.episodeFileId) ELSE a.rel
            c2 == IF fHit THEN c1
                  ELSE [c1 EXCEPT !.efile = DictSet(@, a.episodeFileId, relative_path)]
            r2 == IF fHit THEN r1 ELSE Append(r1, g3)
        IN  IF series_path # <<>> /\ relative_path # <<>>
               THEN [has |-> TRUE,
                     path |-> normalize_root_prefix(
                                  RStrip(series_path, "/") \o <<"/">>
                                      \o LStrip(relative_path, "/"), "tv"),
                     reqs |-> r2, caches |-> c2]
               ELSE [has |-> TRUE, path |-> None, reqs |-> r2, caches |-> c2]

\* the scan ended by any page without a record inside the window
StopScanOnTargetFreePage(n, found_older_than_range, page_has_target_date) ==
    n < PageSize \/ ~page_has_target_date

\* lines 137-144: the stop conditions after a page of n records
StopScan(n, found_older_than_range, page_has_target_date) ==
    n < PageSize \/ (found_older_than_range /\ ~page_has_target_date)

\* One iteration of `while True` in find_all_deletions_on_date (lines
\* 81-146): the GET, the loop over the page and the stop conditions.
\* httpOk = FALSE: raise_for_status() raises.
AFetchPage ==
    /\ IsA /\ pc = "scan"
    /\ aReqs' = Append(aReqs, <<"GET", "history", aPage>>)
    /\ \E httpOk \in BOOLEAN :
          LET records == PageOf(aFeed, aPage)
              st == ScanRecords(prog, aWindow,
                        [del |-> aDeletions, older |-> aOlder, has |-> FALSE,
                         crash |-> FALSE], records)
          IN  IF ~httpOk
                 THEN Raise("HTTPError") /\ UNCHANGED <<aPage, aOlder, aDeletions>>
              ELSE IF records = <<>>
                 \* `data.get("records") or data` is the response dict itself:
                 \* the loop iterates its keys and rec.get raises AttributeError
                 THEN Raise("AttributeError") /\ UNCHANGED <<aPage, aOlder, aDeletions>>
              ELSE IF st.crash
                 \* an offset-naive record_time compared with start_utc
                 THEN Raise("TypeError") /\ UNCHANGED <<aPage, aOlder, aDeletions>>
              ELSE /\ aDeletions' = st.del
                   /\ aOlder' = st.older
                   /\ IF StopScan(Len(records), st.older, st.has)
                         THEN Goto("scanned") /\ UNCHANGED aPage
                         ELSE Goto("scan") /\ aPage' = aPage + 1
    /\ UNCHANGED <<prog, aArgs, aFeed, aWindow, aIdx, aMissing, aRestored, aCaches,
                   aFiles, aOutDir, aPrinted, aStatus,
                   otherThanA>>

\* main after the scan (radarr 267-275, sonarr 282-296): nothing found
\* writes the two empty files and returns
AAfterScan ==
    /\ IsA /\ pc = "scanned"
    /\ IF aDeletions = <<>>
          THEN /\ aFiles' = [missing |-> <<>>, restored |-> <<>>]
               /\ Exit(0)
               /\ UNCHANGED aIdx
          ELSE /\ aIdx' = 1
               /\ Goto("probe")
               /\ UNCHANGED aFiles
    /\ UNCHANGED <<prog, aArgs, aFeed, aWindow, aPage, aOlder, aDeletions, aMissing,
                   aRestored, aCaches, aOutDir, aReqs, aPrinted, aStatus,
                   otherThanA>>

\* the status loop testing has_file alone
ClassifyOnHasFileAlone(missing, restored, id, deleted_path, r) ==
    IF r.has
        THEN [missing |-> missing,
              restored |-> Append(restored, <<id, deleted_path, r.path>>)]
        ELSE [missing |-> Append(missing, <<id, deleted_path>>), restored |-> restored]

\* the status loop with the path test nested under the has_file test and no
\* else branch for it: a file without resolvable path lands in neither list
ClassifyNestedTest(missing, restored, id, deleted_path, r) ==
    IF r.has
        THEN IF r.path # None
                THEN [missing |-> missing,
                      restored |-> Append(restored, <<id, deleted_path, r.path>>)]
                ELSE [missing |-> missing, restored |-> restored]
        ELSE [missing |-> Append(missing, <<id, deleted_path>>), restored |-> restored]

\* radarr 283-286 / sonarr 301-304: one entity into one of the two lists
Classify(missing, restored, id, deleted_path, r) ==
    IF r.has /\ r.path # None
        THEN [missing |-> missing,
              restored |-> Append(restored, <<id, deleted_path, r.path>>)]
        ELSE [missing |-> Append(missing, <<id, deleted_path>>), restored |-> restored]

\* one iteration of the status loop (radarr 280-286, sonarr 298-304)
AProbe ==
    /\ IsA /\ pc = "probe"
    /\ LET id == aDeletions[aIdx][1]
           deleted_path == aDeletions[aIdx][2]
       IN  \E a \in IF prog = "radarr" THEN RadarrAnswers ELSE SonarrAnswers :
              LET r == IF prog = "radarr"
                          THEN get_current_movie_status(id, a)
                               @@ [caches |-> aCaches]
                          ELSE get_current_episode_status(id, a, aCaches)
                  c == Classify(aMissing, aRestored, id, deleted_path, r)
              IN  /\ aStatus' = [has |-> r.has, path |-> r.path]
                  /\ aMissing' = c.missing
                  /\ aRestored' = c.restored
                  /\ aCaches' = r.caches
                  /\ aReqs' = aReqs \o r.reqs
    /\ IF aIdx < Len(aDeletions)
          THEN aIdx' = aIdx + 1 /\ Goto("probe")
          ELSE aIdx' = 0 /\ Goto("write")
    /\ UNCHANGED <<prog, aArgs, aFeed, aWindow, aPage, aOlder, aDeletions,
                   aFiles, aOutDir, aPrinted,
                   otherThanA>>

\* the redownload step taken whenever something is missing
RedownloadWheneverMissing(redownload, missing) == missing # <<>>

\* `if args.redownload and missing_movies` (radarr 321, sonarr 341)
WantsRedownload(redownload, missing) == redownload /\ missing # <<>>

\* main steps 3-5 up to the redownload test (radarr 288-321, sonarr 306-339)
AWrite ==
    /\ IsA /\ pc = "write"
    /\ aFiles' = [missing  |-> Column(SortedBy(aMissing, 2), 2),
                  restored |-> Column(SortedBy(aRestored, 3), 3)]
    /\ IF WantsRedownload(aArgs.redownload, aMissing)
          THEN /\ aIdx' = 1
               /\ aPrinted' = << [text |-> "Triggering redownload for",
                                  n |-> Len(aMissing)] >>
               /\ Goto("monitor")
          ELSE Exit(0) /\ UNCHANGED <<aIdx, aPrinted>>
    /\ UNCHANGED <<prog, aArgs, aFeed, aWindow, aPage, aOlder, aDeletions, aMissing,
                   aRestored, aCaches, aOutDir, aReqs, aStatus, otherThanA>>

EntityEndpoint == IF prog = "radarr" THEN "movie" ELSE "episode"

\* one iteration of ensure_monitored_true (radarr 199-208, sonarr 210-219);
\* get: how the GET ends; a GET that is not a 200 moves on to the next id
\* and an exception is passed over, so that no PUT follows; the PUT's
\* outcome is not looked at; nothing is printed either way
AEnsureMonitored ==
    /\ IsA /\ pc = "monitor"
    /\ LET id == aMissing[aIdx][1]
       IN  \E get \in {"exc", "404", "200"} :
              aReqs' = aReqs \o (IF get = "200"
                                    THEN << <<"GET", EntityEndpoint, id>>,
                                            <<"PUT", EntityEndpoint, id>> >>
                                    ELSE << <<"GET", EntityEndpoint, id>> >>)
    /\ IF aIdx < Len(aMissing)
          THEN aIdx' = aIdx + 1 /\ Goto("monitor")
          ELSE aIdx' = 0 /\ Goto("search")
    /\ UNCHANGED <<prog, aArgs, aFeed, aWindow, aPage, aOlder, aDeletions,
                   aMissing, aRestored, aCaches, aFiles, aOutDir, aPrinted, aStatus,
                   otherThanA>>

\* queue_movies_search / queue_episode_search (radarr 210-222, sonarr
\* 221-233): the requests it sends for a list of ids: none for an empty
\* list, else one POST carrying every id; its outcome is only printed
queue_search(script, ids) ==
    IF ids = <<>> THEN <<>>
    ELSE << <<"POST", "command", ids>> >>

\* main, radarr 321-326 / sonarr 341-346, after ensure_monitored_true
AQueueSearch ==
    /\ IsA /\ pc = "search"
    /\ aReqs' = aReqs \o queue_search(prog, Column(aMissing, 1))
    /\ \E post \in {"201", "500", "exc"} :
          aPrinted' = aPrinted \o
              << (CASE post = "201" -> [text |-> "Queued search for",
                                        n |-> Len(aMissing)]
                    [] post = "500" -> [text |-> "Failed to queue search: HTTP",
                                        n |-> 500]
                    [] post = "exc" -> [text |-> "Error queueing search"]),
                 [text |-> "Redownload requests queued!"] >>
    /\ Exit(0)
    /\ UNCHANGED <<prog, aArgs, aFeed, aWindow, aPage, aOlder, aDeletions, aIdx,
                   aMissing, aRestored, aCaches, aFiles, aOutDir, aStatus,
                   otherThanA>>

NextA == AStart \/ AFetchPage \/ AAfterScan \/ AProbe \/ AWrite \/ AEnsureMonitored
            \/ AQueueSearch

SpecA == InitA /\ [][NextA]_vars

\* ---- the search command for a STILL_MISSING set of any size
MaxMissing == 101

InitQueue ==
    /\ prog = "queue_search"
    /\ pc = "start"
    /\ exitCode = -1
    /\ crash = ""
    /\ \E script \in {"radarr", "sonarr"}, n \in 0..MaxMissing :
          fnArgs = [script |-> script, ids |-> [i \in 1..n |-> i]]
    /\ fnRes = <<>>
    /\ IdleOthers("fn")

QueueSearch ==
    /\ prog = "queue_search" /\ pc = "start"
    /\ fnRes' = queue_search(fnArgs.script, fnArgs.ids)
    /\ Goto("done")
    /\ UNCHANGED <<prog, fnArgs, otherThanFn>>

SpecQueue == InitQueue /\ [][QueueSearch]_vars

\* C16: the search is enqueued in bounded batches: no command request
\* carries more than 100 entity ids, and the ids of all command requests
\* together are the STILL_MISSING set
C16_SearchIsBatched ==
    (prog = "queue_search" /\ pc = "done") =>
        /\ \A k \in 1..Len(fnRes) : Len(fnRes[k][3]) <= 100
        /\ UNION {{fnRes[k][3][i] : i \in 1..Len(fnRes[k][3])} : k \in 1..Len(fnRes)}
              = {fnArgs.ids[i] : i \in 1..Len(fnArgs.ids)}

\* ---- histories that differ in the event kind of their records
\* in-window events, each with a path: the kind the script looks for in
\* two spellings, the other service's file-deleted kind, another kind that
\* speaks of a deletion, and a download, all of entity 1; and the two
\* file-deleted kinds of entity 2
KindsSeen ==
    { <<"movie", "File", "Deleted">>, <<"MOVIE", "FILE", "DELETED">>,
      <<"episode", "File", "Deleted">>, <<"EPISODE", "FILE", "DELETED">>,
      <<"movie", "Deleted">>, <<"grabbed">> }

KindRecords ==
    {Rec("aware", WinStart, k, 1, RawA) : k \in KindsSeen}
        \cup {Rec("aware", WinStart, DeletedKind(script), 2, RawB) :
                    script \in {"radarr", "sonarr"}}

InitKinds ==
    /\ prog \in {"radarr", "sonarr"}
    /\ pc = "start"
    /\ exitCode = -1
    /\ crash = ""
    /\ aArgs \in ArgSets
    /\ aFeed \in SeqsUpTo(KindRecords, MaxFeed)
    /\ aWindow = None
    /\ aPage = 0
    /\ aOlder = FALSE
    /\ aDeletions = <<>>
    /\ aIdx = 0
    /\ aMissing = <<>>
    /\ aRestored = <<>>
    /\ aCaches = [series |-> <<>>, efile |-> <<>>]
    /\ aFiles = [missing |-> None, restored |-> None]
    /\ aOutDir = FALSE
    /\ aReqs = <<>>
    /\ aPrinted = <<>>
    /\ aStatus = NotProbed
    /\ IdleOthers("A")

SpecKinds == InitKinds /\ [][NextA]_vars

\* ---- the probe of one entity against every answer of the service
FullMoviePath == <<"/", "mnt", "/", "user", "/", "movies", "/", "A", "/", "a.mkv">>
FullEpisodePath == <<"/", "mnt", "/", "user", "/", "tv", "/", "S", "/", "e1.mkv">>

HttpOutcomes == {"exc", "404", "200"}

\* radarr: the movie and its file records
MovieProbeAnswers ==
    [mget : HttpOutcomes, hasFile : BOOLEAN,
     moviePath : {<<>>, <<"/", "movies", "/", "A">>,
                  <<"/", "mnt", "/", "user", "/", "movies", "/", "A", "/">>},
     fget : HttpOutcomes,
     files : { <<>>,
               << MovieFile(1, FullMoviePath, <<"a.mkv">>) >>,
               << MovieFile(1, <<>>, <<"a.mkv">>) >>,
               << MovieFile(1, <<>>, <<"/", "a.mkv">>) >>,
               << MovieFile(1, <<>>, <<>>) >>,
               << MovieFile(1, <<>>, <<"a.mkv">>), MovieFile(2, FullMoviePath, <<>>) >> }]

\* sonarr: the episode, its series and its file record; filePath is the
\* file record's "path"
EpisodeProbeAnswers ==
    [eget : HttpOutcomes, hasFile : BOOLEAN, seriesId : {0, 1}, episodeFileId : {0, 1},
     sget : {"404", "200"},
     seriesPath : {<<>>, <<"/", "mnt", "/", "user", "/", "tv", "/", "S", "/">>},
     fget : {"exc", "200"}, rel : {<<>>, <<"e1.mkv">>, <<"/", "e1.mkv">>},
     filePath : {<<>>, FullEpisodePath}]

InitProbe ==
    /\ prog = "get_current_status"
    /\ pc = "start"
    /\ exitCode = -1
    /\ crash = ""
    /\ \/ \E a \in MovieProbeAnswers : fnArgs = [script |-> "radarr", id |-> 1, a |-> a]
       \/ \E a \in EpisodeProbeAnswers : fnArgs = [script |-> "sonarr", id |-> 1, a |-> a]
    /\ fnRes = <<>>
    /\ IdleOthers("fn")

\* get_current_movie_status(session, base_url, movie_id)
ProbeMovie ==
    /\ prog = "get_current_status" /\ pc = "start" /\ fnArgs.script = "radarr"
    /\ fnRes' = get_current_movie_status(fnArgs.id, fnArgs.a)
    /\ Goto("done")
    /\ UNCHANGED <<prog, fnArgs, otherThanFn>>

\* get_current_episode_status(session, base_url, episode_id) with the
\* caches of a run that has probed nothing yet
ProbeEpisode ==
    /\ prog = "get_current_status" /\ pc = "start" /\ fnArgs.script = "sonarr"
    /\ fnRes' = get_current_episode_status(fnArgs.id, fnArgs.a,
                                           [series |-> <<>>, efile |-> <<>>])
    /\ Goto("done")
    /\ UNCHANGED <<prog, fnArgs, otherThanFn>>

NextProbe == ProbeMovie \/ ProbeEpisode

SpecProbe == InitProbe /\ [][NextProbe]_vars

\* the file record the probe was given: the largest of a movie's files, the
\* episode's file; and the container's path
ProbedFile ==
    IF fnArgs.script = "radarr"
        THEN LET f == LargestFile(fnArgs.a.files)
             IN  [path |-> f.path, rel |-> f.rel, container |-> fnArgs.a.moviePath]
        ELSE [path |-> fnArgs.a.filePath, rel |-> fnArgs.a.rel,
              container |-> fnArgs.a.seriesPath]

\* every request of the probe was answered, the entity reports a file and
\* its file record was returned
FileRecordReturned ==
    IF fnArgs.script = "radarr"
        THEN /\ fnArgs.a.mget = "200" /\ fnArgs.a.hasFile
             /\ fnArgs.a.fget = "200" /\ fnArgs.a.files # <<>>
        ELSE /\ fnArgs.a.eget = "200" /\ fnArgs.a.hasFile
             /\ fnArgs.a.seriesId # 0 /\ fnArgs.a.episodeFileId # 0
             /\ fnArgs.a.sget = "200" /\ fnArgs.a.fget = "200"

ReportsNoFile ==
    IF fnArgs.script = "radarr" THEN fnArgs.a.mget = "200" /\ ~fnArgs.a.hasFile
                                ELSE fnArgs.a.eget = "200" /\ ~fnArgs.a.hasFile

\* C24: for an entity that reports a file the probe returns the file
\* record's direct path when it has one and else, when the record has a
\* relative path, the container path joined with it, normalized by
\* normalize_root_prefix; for an entity that reports no file it returns
\* (false, none).
C24_ProbeResolvesCurrentPath ==
    (prog = "get_current_status" /\ pc = "done") =>
        LET f == ProbedFile
            variant == PathVariant(fnArgs.script)
        IN  /\ (FileRecordReturned /\ f.path # <<>>) =>
                    fnRes.has /\ fnRes.path = normalize_root_prefix(f.path, variant)
            /\ (FileRecordReturned /\ f.path = <<>> /\ f.rel # <<>>
                    /\ f.container # <<>>) =>
                    /\ fnRes.has
                    /\ fnRes.path = normalize_root_prefix(
                            RStrip(f.container, "/") \o <<"/">> \o LStrip(f.rel, "/"),
                            variant)
            /\ ReportsNoFile => ~fnRes.has /\ fnRes.path = None

\* ---- longer histories, to follow the scan over several pages
MaxScanFeed == 5

\* deletions with a path just after the window (entity 1), at its last
\* minute (entity 1), at its first minute (entity 2) and just before it
\* (entity 2), and a deletion at its first minute without a path (entity 3)
ScanRecordsSeen(script) ==
    LET del == DeletedKind(script)
    IN  { Rec("aware", WinEnd, del, 1, RawA),
          Rec("aware", WinEnd - 1, del, 1, RawA),
          Rec("aware", WinStart, del, 2, RawB),
          Rec("aware", WinStart - 1, del, 2, RawA),
          Rec("aware", WinStart, del, 3, <<>>) }

InitScan ==
    /\ prog \in {"radarr", "sonarr"}
    /\ pc = "start"
    /\ exitCode = -1
    /\ crash = ""
    /\ aArgs = [api_key |-> TRUE, date |-> DefaultDate, tz_offset |-> DefaultOff,
                redownload |-> FALSE]
    /\ aFeed \in SeqsUpTo(ScanRecordsSeen(prog), MaxScanFeed)
    /\ aWindow = None
    /\ aPage = 0
    /\ aOlder = FALSE
    /\ aDeletions = <<>>
    /\ aIdx = 0
    /\ aMissing = <<>>
    /\ aRestored = <<>>
    /\ aCaches = [series |-> <<>>, efile |-> <<>>]
    /\ aFiles = [missing |-> None, restored |-> None]
    /\ aOutDir = FALSE
    /\ aReqs = <<>>
    /\ aPrinted = <<>>
    /\ aStatus = NotProbed
    /\ IdleOthers("A")

\* main up to the return of find_all_deletions_on_date
NextScan == AStart \/ AFetchPage

SpecScan == InitScan /\ [][NextScan]_vars

(***************************************************************************)
(* Properties of Pipeline A                                                *)
(***************************************************************************)
ACompleted == IsA /\ pc = "exit" /\ exitCode = 0

RestoredIds == {aRestored[i][1] : i \in 1..Len(aRestored)}
MissingIds  == {aMissing[i][1] : i \in 1..Len(aMissing)}

\* a record that is a file-deleted event of an entity inside the window
IsWindowDeletion(rec) ==
    /\ rec.date.form = "aware"
    /\ InWindow(rec.date.t, aWindow)
    /\ rec.kind = DeletedKind(prog)
    /\ RecId(prog, rec) # 0

\* the records on the pages the scan has been given so far
FetchedRecords ==
    LET n == IF pc = "scan" THEN aPage - 1 ELSE aPage
    IN  SubSeq(aFeed, 1, IF n * PageSize < Len(aFeed) THEN n * PageSize ELSE Len(aFeed))

IdsOf(recs, Test(_)) == {RecId(prog, recs[i]) : i \in {j \in 1..Len(recs) : Test(recs[j])}}

HasPath(rec) == RecRawPath(rec) # <<>>

\* C1 as stated: after a completed run RESTORED and STILL_MISSING are
\* disjoint and together are exactly the entity ids with a file-deleted
\* event inside the window anywhere in the feed.
C1_PartitionOfAllWindowDeletions ==
    ACompleted =>
        /\ RestoredIds \cap MissingIds = {}
        /\ RestoredIds \cup MissingIds = IdsOf(aFeed, IsWindowDeletion)

\* C1 as amended: after a completed run RESTORED and STILL_MISSING are
\* disjoint and together are exactly the entity ids with, on a page the scan
\* fetched, a file-deleted event inside the window that carries a path.
C1_PartitionOfScannedDeletions ==
    ACompleted =>
        /\ RestoredIds \cap MissingIds = {}
        /\ RestoredIds \cup MissingIds =
               IdsOf(FetchedRecords, LAMBDA rec : IsWindowDeletion(rec) /\ HasPath(rec))

\* a completed run that classified one entity RESTORED and another
\* STILL_MISSING
C1_Witness ==
    /\ ACompleted
    /\ RestoredIds # {} /\ MissingIds # {}

\* C6: once the scan has returned, the path kept for an entity is the
\* normalized path of the first in-window deletion of that entity (with a
\* path) in scan order.
C6_FirstSeenDeletionIsKept ==
    (IsA /\ pc = "scanned") =>
        \A id \in DictKeys(aDeletions) :
            LET hits  == {j \in 1..Len(FetchedRecords) :
                              /\ IsWindowDeletion(FetchedRecords[j])
                              /\ HasPath(FetchedRecords[j])
                              /\ RecId(prog, FetchedRecords[j]) = id}
                first == CHOOSE j \in hits : \A k \in hits : j <= k
            IN  DictGet(aDeletions, id) =
                    normalize_root_prefix(RecRawPath(FetchedRecords[first]),
                                          PathVariant(prog))

\* C14: a history record whose timestamp is missing, empty, or cannot be
\* parsed into a point in time comparable with the window never aborts the
\* scan; the record is skipped, and when the scan returns the map holds
\* every in-window deletion (with a path) of the records it went through
C14_MalformedTimestampIsSkipped ==
    IsA =>
        /\ crash # "TypeError"
        /\ pc = "scanned" =>
              DictKeys(aDeletions) =
                  IdsOf(FetchedRecords,
                        LAMBDA rec : IsWindowDeletion(rec) /\ HasPath(rec))

\* ensure_monitored_true goes through the STILL_MISSING list in order and
\* sends GET, PUT for an entity whose fetch succeeds and GET alone for one
\* whose fetch fails.  reqs: the requests up to the end of it; the result:
\* the positions in the list of the first i entities whose fetch failed
RECURSIVE FailedFetches(_, _)
FailedFetches(reqs, i) ==
    IF i = 0 THEN {}
    ELSE IF reqs[Len(reqs)][1] = "PUT"
        THEN FailedFetches(SubSeq(reqs, 1, Len(reqs) - 2), i - 1)
        ELSE {i} \cup FailedFetches(SubSeq(reqs, 1, Len(reqs) - 1), i - 1)

\* C17: a remediation failure on one entity never aborts the batch and is
\* reported: after a run with --redownload every STILL_MISSING entity was
\* attempted, the search command was enqueued, and for every entity whose
\* fetch failed some line of the run's output names that entity
C17_RemediationFailureIsReported ==
    (ACompleted /\ aArgs.redownload /\ aMissing # <<>>) =>
        LET n == Len(aMissing)
            before == SubSeq(aReqs, 1, Len(aReqs) - 1)
        IN  /\ aReqs[Len(aReqs)] = <<"POST", "command", Column(aMissing, 1)>>
            /\ \A i \in 1..n :
                  \E k \in (Len(before) - 2 * n + 1)..Len(before) :
                      k >= 1 /\ before[k] = <<"GET", EntityEndpoint, aMissing[i][1]>>
            /\ \A i \in FailedFetches(before, n) :
                  \E k \in 1..Len(aPrinted) :
                      /\ "id" \in DOMAIN aPrinted[k]
                      /\ aPrinted[k].id = aMissing[i][1]

\* an in-window record with an entity id and a path
InWindowWithIdAndPath(rec) ==
    /\ rec.date.form = "aware" /\ InWindow(rec.date.t, aWindow)
    /\ RecId(prog, rec) # 0 /\ HasPath(rec)

\* the event kind contains 'deleted', whatever the case of its letters
ContainsDeleted(kind) == \E i \in 1..Len(kind) : LowerTok(kind[i]) = "deleted"

\* the event kind is the one the script names, whatever the case
IsFileDeletedOf(script, kind) ==
    /\ Len(kind) = 3
    /\ LowerTok(kind[1]) = (IF script = "radarr" THEN "movie" ELSE "episode")
    /\ LowerTok(kind[2]) = "file"
    /\ LowerTok(kind[3]) = "deleted"

\* the page the scan is about to be given
ThisPage == PageOf(aFeed, aPage)

PageOldestPredatesStart ==
    \E i \in 1..Len(ThisPage) :
        ThisPage[i].date.form = "aware" /\ ThisPage[i].date.t < aWindow.start

PageHasInWindowRecord ==
    \E i \in 1..Len(ThisPage) :
        ThisPage[i].date.form = "aware" /\ InWindow(ThisPage[i].date.t, aWindow)

\* the scan went through the page and either asked for the next or returned
PageProcessed == IsA /\ pc = "scan" /\ pc' \in {"scan", "scanned"}

\* C21: after a full page the scan stops iff that page's oldest record
\* predates start_utc and that page holds no record inside the window,
\* whatever the earlier pages held.
C21_StopDependsOnThisPageOnly ==
    [][ (PageProcessed /\ Len(ThisPage) = PageSize) =>
            (pc' = "scanned" <=> (PageOldestPredatesStart /\ ~PageHasInWindowRecord))
      ]_vars

\* C22: a page with fewer records than the page size, the empty page
\* included, ends the scan: once the service has answered, the scan returns
\* and asks for no further page.
C22_ShortPageEndsScan ==
    [][ (IsA /\ pc = "scan" /\ pc' # "scan" /\ crash' # "HTTPError"
             /\ Len(ThisPage) < PageSize) =>
            (pc' = "scanned" /\ crash' = "" /\ aPage' = aPage)
      ]_vars

\* the feed is ordered by timestamp, newest first
Descending(feed) ==
    \A i, j \in 1..Len(feed) : i < j => feed[i].date.t >= feed[j].date.t

\* every entry of the map comes from a record inside the window
EntriesAreInWindow ==
    \A id \in DictKeys(aDeletions) :
        \E i \in 1..Len(aFeed) :
            IsWindowDeletion(aFeed[i]) /\ RecId(prog, aFeed[i]) = id

\* C23 as stated: when the scan of a descending feed returns, the map holds
\* the entity id of every in-window deletion event of the feed; and every
\* entry of a returned map comes from a record inside the window.
C23_DescendingFeedIsNotUnderScanned ==
    (IsA /\ pc = "scanned") =>
        /\ Descending(aFeed) => IdsOf(aFeed, IsWindowDeletion) \subseteq DictKeys(aDeletions)
        /\ EntriesAreInWindow

\* C23 as amended: when the scan of a descending feed returns, the map
\* holds the entity id of every in-window deletion event of the feed that
\* carries a path; and every entry of a returned map comes from a record
\* inside the window.
C23_DescendingFeedDeletionsWithPathAreScanned ==
    (IsA /\ pc = "scanned") =>
        /\ Descending(aFeed) =>
              IdsOf(aFeed, LAMBDA rec : IsWindowDeletion(rec) /\ HasPath(rec))
                  \subseteq DictKeys(aDeletions)
        /\ EntriesAreInWindow

\* the scan of a descending feed returned on a full page past the window,
\* with pages left unread, having found the deletions of two entities
C23_Witness ==
    /\ IsA /\ pc = "scanned"
    /\ Descending(aFeed)
    /\ aPage * PageSize < Len(aFeed)
    /\ Cardinality(DictKeys(aDeletions)) = 2

\* C25: each step of the status loop ends with the entity classified and
\* the loop going on: RESTORED, with the current path, iff the probe
\* returned has_file true together with a path; STILL_MISSING, with the
\* deleted path the scan recorded, in every other case.
C25_RestoredIffFileWithPath ==
    [][ (IsA /\ pc = "probe") =>
            LET id == aDeletions[aIdx][1]
                deleted_path == DictGet(aDeletions, id)
            IN  /\ crash' = ""
                /\ IF aIdx < Len(aDeletions) THEN pc' = "probe" /\ aIdx' = aIdx + 1
                                             ELSE pc' = "write"
                /\ IF aStatus'.has /\ aStatus'.path # None
                      THEN /\ aRestored' = Append(aRestored,
                                                  <<id, deleted_path, aStatus'.path>>)
                           /\ aMissing' = aMissing
                      ELSE /\ aMissing' = Append(aMissing, <<id, deleted_path>>)
                           /\ aRestored' = aRestored
      ]_vars

\* a completed run in which one entity was found restored and the last one
\* probed, reporting a file whose path could not be resolved, STILL_MISSING
C25_Witness ==
    /\ ACompleted
    /\ aRestored # <<>>
    /\ aStatus.has /\ aStatus.path = None
    /\ aMissing # <<>> /\ aMissing[Len(aMissing)][1] = aDeletions[Len(aDeletions)][1]

\* the successful fetches of a container id among the first n requests
Fetched200(endpoint, id, n) ==
    {i \in 1..n : aReqs[i] = <<"GET", endpoint, id, "200">>}

IsLookup(rq, endpoint) == Len(rq) = 4 /\ rq[1] = "GET" /\ rq[2] = endpoint

\* C26: in a sonarr_deleted run no series id and no episode-file id is
\* requested again after a fetch of it that answered 200; an id is in a
\* cache only after such a fetch; and the caches are empty until the first
\* probe of the run.
C26_ContainersFetchedOncePerRun ==
    (prog = "sonarr" /\ IsA) =>
        /\ \A j \in 1..Len(aReqs) : \A endpoint \in {"series", "episodefile"} :
              IsLookup(aReqs[j], endpoint) =>
                  Fetched200(endpoint, aReqs[j][3], j - 1) = {}
        /\ \A id \in DictKeys(aCaches.series) :
              Fetched200("series", id, Len(aReqs)) # {}
        /\ \A id \in DictKeys(aCaches.efile) :
              Fetched200("episodefile", id, Len(aReqs)) # {}
        /\ pc \in {"start", "scan", "scanned"} =>
              aCaches = [series |-> <<>>, efile |-> <<>>]

\* a completed run probed two episodes of one series and of one file, found
\* both restored, and asked for the series and for the file once
C26_Witness ==
    /\ ACompleted /\ prog = "sonarr"
    /\ Len(aRestored) = 2
    /\ Cardinality({j \in 1..Len(aReqs) : IsLookup(aReqs[j], "series")}) = 1
    /\ Cardinality({j \in 1..Len(aReqs) : IsLookup(aReqs[j], "episodefile")}) = 1

\* the requests that change the service, by their position in the log
ChangingRequests == {j \in 1..Len(aReqs) : aReqs[j][1] \in {"PUT", "POST"}}

\* the entity ids a changing request names
IdsChangedBy(rq) ==
    IF rq[1] = "POST" THEN {rq[3][i] : i \in 1..Len(rq[3])} ELSE {rq[3]}

\* C29: a run issues a PUT or POST only with --redownload and a non-empty
\* STILL_MISSING set, and then only for entity ids of that set, never for a
\* RESTORED entity; and no step of the redownload changes the two lists or
\* the two files already written.
C29_OnlyMissingEntitiesAreChanged ==
    /\ [](IsA =>
            \A j \in ChangingRequests :
                /\ aArgs.redownload
                /\ aMissing # <<>>
                /\ IdsChangedBy(aReqs[j]) \subseteq MissingIds
                /\ IdsChangedBy(aReqs[j]) \cap RestoredIds = {})
    /\ [][(IsA /\ pc \in {"monitor", "search"}) =>
              /\ aMissing' = aMissing /\ aRestored' = aRestored
              /\ aFiles' = aFiles /\ aDeletions' = aDeletions]_vars

\* a run with --redownload ended having found one entity restored and
\* another missing, updated the missing one and queued the search for it
C29_Witness ==
    /\ ACompleted /\ aArgs.redownload
    /\ RestoredIds # {} /\ MissingIds # {}
    /\ \E j \in ChangingRequests : aReqs[j][1] = "PUT"
    /\ \E j \in ChangingRequests : aReqs[j][1] = "POST"

strip(s) == LStrip(RStrip(s, " "), " ")

os_path_isabs(p) == StartsWith(p, <<"/">>)

\* os.path.join(a, b): an absolute b discards a
os_path_join(a, b) ==
    IF os_path_isabs(b) THEN b
    ELSE IF a = <<>> \/ EndsWith(a, <<"/">>) THEN a \o b
    ELSE a \o <<"/">> \o b

\* the component loop of os.path.normpath
RECURSIVE NormComps(_, _, _)
NormComps(comps, initial, acc) ==
    IF comps = <<>> THEN acc
    ELSE LET c == Head(comps)
         IN  IF c = <<>> \/ c = <<".">>
                THEN NormComps(Tail(comps), initial, acc)
             ELSE IF \/ c # <<"..">>
                     \/ (~initial /\ acc = <<>>)
                     \/ (acc # <<>> /\ acc[Len(acc)] = <<"..">>)
                THEN NormComps(Tail(comps), initial, Append(acc, c))
             ELSE IF acc # <<>>
                THEN NormComps(Tail(comps), initial, SubSeq(acc, 1, Len(acc) - 1))
             ELSE NormComps(Tail(comps), initial, acc)

os_path_normpath(path) ==
    IF path = <<>> THEN <<".">>
    ELSE LET initial == IF ~StartsWith(path, <<"/">>) THEN 0
                        ELSE IF /\ StartsWith(path, <<"/", "/">>)
                                /\ ~StartsWith(path, <<"/", "/", "/">>)
                             THEN 2
                        ELSE 1
             comps == NormComps(Split(path, "/"), initial > 0, <<>>)
             full == [k \in 1..initial |-> "/"] \o Join(comps, "/")
         IN  IF full = <<>> THEN <<".">> ELSE full

\* os.path.exists(p) against a set of existing normalized absolute paths
os_path_exists(fs, p) == os_path_normpath(p) \in fs

(***************************************************************************)
(* recovery_plan.py                                                        *)
(***************************************************************************)
load_backup_folders(lines) ==
    {strip(lines[i]) : i \in {j \in 1..Len(lines) :
                                /\ strip(lines[j]) # <<>>
                                /\ ~StartsWith(strip(lines[j]), <<"#">>)}}

\* the union of the readable lists; a list that is not there is skipped
load_deleted_set(files) ==
    UNION {IF ~files[k].readable THEN {}
           ELSE {strip(files[k].lines[i]) :
                    i \in {j \in 1..Len(files[k].lines) :
                              strip(files[k].lines[j]) # <<>>}}
           : k \in 1..Len(files)}

\* count_lines_binary: the number of lines of the file
count_lines_binary(lines) == Len(lines)

\* a plain prefix test, with no '/' after the folder
folder_matcher_plain_prefix(folder, path) ==
    IF folder = None THEN TRUE
    ELSE StartsWith(path, RStrip(folder, "/"))

\* folder_matcher(folder)(path), the copy of recovery_plan.py
folder_matcher(folder, path) ==
    IF folder = None THEN TRUE
    ELSE LET f == RStrip(folder, "/")
         IN  path = f \/ StartsWith(path, f \o <<"/">>)

\* `while folder.endswith('/'): folder = folder[:-1]`
RECURSIVE StripTrailingSlashes(_)
StripTrailingSlashes(folder) ==
    IF EndsWith(folder, <<"/">>)
       THEN StripTrailingSlashes(SubSeq(folder, 1, Len(folder) - 1))
       ELSE folder

\* the copy of recovery_restore.py (lines 38-47)
folder_matcher_restore(folder, path) ==
    IF folder = None THEN TRUE
    ELSE LET stripped == StripTrailingSlashes(folder)
             prefix   == stripped \o <<"/">>
         IN  path = stripped \/ StartsWith(path, prefix)

\* the copy of recovery_analysis.py (lines 106-121)
folder_matcher_analysis(folder, path) ==
    IF folder = None THEN TRUE
    ELSE LET stripped == StripTrailingSlashes(folder)
             prefix   == stripped \o <<"/">>
         IN  path = stripped \/ StartsWith(path, prefix)

top_level_component(relpath) == Split(relpath, "/")[1]

\* a loop body that falls through after the FOUND write
ClassifyPathFallThrough(s, base_path, fs, backup_set, deleted_set) ==
    LET rest == IF top_level_component(s) \in backup_set THEN <<"backup">>
                ELSE IF s \in deleted_set THEN <<"redownload">>
                ELSE <<"missing">>
    IN  IF os_path_exists(fs, os_path_join(base_path, s))
           THEN <<"found">> \o rest
           ELSE rest

\* a loop body that asks the backup set before the filesystem
ClassifyPathBackupFirst(s, base_path, fs, backup_set, deleted_set) ==
    IF top_level_component(s) \in backup_set THEN <<"backup">>
    ELSE IF os_path_exists(fs, os_path_join(base_path, s)) THEN <<"found">>
    ELSE IF s \in deleted_set THEN <<"redownload">>
    ELSE <<"missing">>

\* the streams the loop body writes the considered path s to, in order
ClassifyPath(s, base_path, fs, backup_set, deleted_set) ==
    IF os_path_exists(fs, os_path_join(base_path, s)) THEN <<"found">>
    ELSE IF top_level_component(s) \in backup_set THEN <<"backup">>
    ELSE IF s \in deleted_set THEN <<"redownload">>
    ELSE <<"missing">>

\* the streams and their counters
Streams == {"found", "backup", "redownload", "missing"}

CounterOf(stream) ==
    CASE stream = "found"      -> "c_found"
      [] stream = "backup"     -> "c_backup"
      [] stream = "redownload" -> "c_redl"
      [] stream = "missing"    -> "c_missing"

\* f.write(s + "\n"); c += 1 for each stream of the list, in order
RECURSIVE WriteAll(_, _, _, _)
WriteAll(streams, s, out, count) ==
    IF streams = <<>> THEN [out |-> out, count |-> count]
    ELSE LET k == Head(streams)
         IN  WriteAll(Tail(streams), s,
                      [out EXCEPT ![k] = Append(@, s)],
                      [count EXCEPT ![CounterOf(k)] = @ + 1])

\* ---- the inputs of a run
PlanBase == <<"/", "mnt", "/", "user">>

MoviePath == <<"movies", "/", "A", "/", "a.mkv">>
TvPath    == <<"tv", "/", "B", "/", "b.mkv">>
TvxPath   == <<"tv", "x", "/", "b.mkv">>

PlanLines ==
    { MoviePath, TvPath,
      <<" ">>,                          \* a blank line
      <<" ">> \o TvxPath \o <<" ">>,    \* blanks around a path
      <<"/">> \o TvPath }               \* an absolute path

Under(s) == PlanBase \o <<"/">> \o s

PlanFilesystems ==
    { {},
      {Under(TvPath)},
      {Under(MoviePath), <<"/">> \o TvPath} }

File(lines) == [isfile |-> TRUE, readable |-> TRUE, lines |-> lines]
NoFile == [isfile |-> FALSE, readable |-> FALSE, lines |-> <<>>]

PlanBackupFiles ==
    { File(<< <<"tv">> >>),
      File(<< <<"#", "tv">>, <<" ", "movies", " ">>, <<>> >>) }

PlanDeletedFiles ==
    { << File(<<MoviePath>>) >>,
      << NoFile, File(<<MoviePath, <<" ">> \o TvPath, <<>>, TvxPath>>) >> }

PlanFolders == {None, <<"tv", "/">>}

InitPlan ==
    /\ prog = "recovery_plan"
    /\ pc = "start"
    /\ exitCode = -1
    /\ crash = ""
    /\ pInput \in SeqsUpTo(PlanLines, MaxPlanLines)
    /\ \/ /\ pArgs \in [input_isfile : {TRUE}, base_path : {PlanBase},
                        folder : PlanFolders]
          /\ pBackupFile \in PlanBackupFiles
          /\ pDeletedFiles \in PlanDeletedFiles
          /\ pFs \in PlanFilesystems
       \/ /\ pArgs \in { [input_isfile |-> FALSE, base_path |-> PlanBase,
                          folder |-> None],
                         [input_isfile |-> TRUE, base_path |-> Tail(PlanBase),
                          folder |-> None] }
          /\ pBackupFile \in PlanBackupFiles \cup {NoFile}
          /\ pDeletedFiles = <<>>
          /\ pFs = {}
       \/ /\ pArgs = [input_isfile |-> TRUE, base_path |-> PlanBase,
                      folder |-> None]
          /\ pBackupFile = NoFile
          /\ pDeletedFiles = <<>>
          /\ pFs = {}
    /\ ~pArgs.input_isfile => pInput = <<>>
    /\ pBackupSet = {} /\ pDeletedSet = {} /\ pLine = 0
    /\ pOut = <<>> /\ pCount = <<>> /\ pOutDir = FALSE
    /\ IdleOthers("plan")

IsPlan == prog = "recovery_plan"

\* main up to the `with open(...)` that creates the four outputs
PStart ==
    /\ IsPlan /\ pc = "start"
    /\ IF ~pArgs.input_isfile
          THEN Exit(2) /\ UNCHANGED <<pBackupSet, pDeletedSet, pLine, pOut, pCount,
                                      pOutDir>>
       ELSE IF ~os_path_isabs(pArgs.base_path)
          THEN Exit(2) /\ UNCHANGED <<pBackupSet, pDeletedSet, pLine, pOut, pCount,
                                      pOutDir>>
       ELSE IF count_lines_binary(pInput) = 0
          THEN Exit(2) /\ UNCHANGED <<pBackupSet, pDeletedSet, pLine, pOut, pCount,
                                      pOutDir>>
       ELSE IF ~pBackupFile.isfile
          THEN Exit(2) /\ UNCHANGED <<pBackupSet, pDeletedSet, pLine, pOut, pCount,
                                      pOutDir>>
       ELSE /\ pBackupSet' = load_backup_folders(pBackupFile.lines)
            /\ pDeletedSet' = load_deleted_set(pDeletedFiles)
            /\ pOutDir' = TRUE
            /\ pOut' = [k \in Streams |-> <<>>]
            /\ pCount' = [n_read |-> 0, n_blank |-> 0, n_filtered |-> 0,
                          c_found |-> 0, c_backup |-> 0, c_redl |-> 0,
                          c_missing |-> 0]
            /\ pLine' = 1
            /\ Goto("loop")
    /\ UNCHANGED <<prog, pArgs, pInput, pBackupFile, pDeletedFiles, pFs,
                   otherThanPlan>>

\* one iteration of `for line in fin`
PLine ==
    /\ IsPlan /\ pc = "loop"
    /\ pLine <= Len(pInput)
    /\ LET s == strip(pInput[pLine])
       IN  IF s = <<>>
              THEN /\ pCount' = [pCount EXCEPT !.n_blank = @ + 1]
                   /\ UNCHANGED pOut
           ELSE IF ~folder_matcher(pArgs.folder, s)
              THEN /\ pCount' = [pCount EXCEPT !.n_filtered = @ + 1]
                   /\ UNCHANGED pOut
           ELSE LET w == WriteAll(ClassifyPath(s, pArgs.base_path, pFs,
                                               pBackupSet, pDeletedSet),
                                  s, pOut, [pCount EXCEPT !.n_read = @ + 1])
                IN  pOut' = w.out /\ pCount' = w.count
    /\ pLine' = pLine + 1
    /\ Goto("loop")
    /\ UNCHANGED <<prog, pArgs, pInput, pBackupFile, pDeletedFiles, pFs, pBackupSet,
                   pDeletedSet, pOutDir, otherThanPlan>>

\* the end of the input: the outputs are closed, then the n_read test
PFinish ==
    /\ IsPlan /\ pc = "loop"
    /\ pLine > Len(pInput)
    /\ IF pCount.n_read = 0 THEN Exit(2) ELSE Exit(0)
    /\ UNCHANGED <<prog, varsPlan, otherThanPlan>>

NextPlan == PStart \/ PLine \/ PFinish

SpecPlan == InitPlan /\ [][NextPlan]_vars

(***************************************************************************)
(* Properties of recovery_plan                                             *)
(***************************************************************************)
\* the four outputs have been opened (created or truncated)
PlanOpened == DOMAIN pOut # {}

\* the lines the loop has been through
PlanSeen == IF ~PlanOpened THEN <<>>
            ELSE [i \in 1..(pLine - 1) |-> pInput[i]]

\* a line is considered when it is not blank and the folder filter takes it
Considered(line) ==
    /\ strip(line) # <<>>
    /\ folder_matcher(pArgs.folder, strip(line))

\* how many elements of seq satisfy Test
Count(seq, Test(_)) == Cardinality({i \in 1..Len(seq) : Test(seq[i])})

\* how many times the four streams together hold the string s
TimesWritten(s) ==
    LET Is(x) == x = s
    IN  Count(pOut["found"], Is) + Count(pOut["backup"], Is)
          + Count(pOut["redownload"], Is) + Count(pOut["missing"], Is)

\* C2: every considered line the loop has been through is in exactly one of
\* the four streams (each stream entry answers one considered line, as many
\* entries of a string as considered lines spell it), blank and filtered-out
\* lines are in none, and the four category counters add up to n_read, the
\* number of considered lines
C2_ExactlyOneStream ==
    (IsPlan /\ PlanOpened) =>
        LET IsConsidered(l) == Considered(l)
            seen == PlanSeen
        IN  /\ \A i \in 1..Len(seen) :
                 LET Same(l) == Considered(l) /\ strip(l) = strip(seen[i])
                 IN  IF Considered(seen[i])
                        THEN TimesWritten(strip(seen[i])) = Count(seen, Same)
                        ELSE /\ TimesWritten(strip(seen[i])) = 0
                             /\ TimesWritten(seen[i]) = 0
            /\ \A k \in Streams : \A j \in 1..Len(pOut[k]) :
                 \E i \in 1..Len(seen) :
                     Considered(seen[i]) /\ strip(seen[i]) = pOut[k][j]
            /\ \A k \in Streams : pCount[CounterOf(k)] = Len(pOut[k])
            /\ pCount.n_read = Count(seen, IsConsidered)
            /\ pCount.c_found + pCount.c_backup + pCount.c_redl
                 + pCount.c_missing = pCount.n_read

\* a finished run that went through a blank line, a filtered-out line and a
\* path that is both on the filesystem and backup-listed
C2_Witness ==
    /\ IsPlan /\ pc = "exit" /\ exitCode = 0
    /\ pCount.n_blank = 1 /\ pCount.n_filtered = 1 /\ pCount.n_read = 1
    /\ pOut["found"] = <<TvPath>>
    /\ <<"tv">> \in pBackupSet

\* the considered paths the loop has been through, in input order
ConsideredSeen ==
    LET seen == PlanSeen
        idx == {i \in 1..Len(seen) : Considered(seen[i])}
        RECURSIVE Pick(_)
        Pick(i) == IF i > Len(seen) THEN <<>>
                   ELSE IF i \in idx THEN <<strip(seen[i])>> \o Pick(i + 1)
                   ELSE Pick(i + 1)
    IN  Pick(1)

\* the first '/'-separated segment of a path
FirstSegment(s) ==
    IF \E i \in 1..Len(s) : s[i] = "/"
       THEN SubSeq(s, 1, (CHOOSE i \in 1..Len(s) :
                            s[i] = "/" /\ \A j \in 1..(i - 1) : s[j] # "/") - 1)
       ELSE s

\* the reference function, given what "the path exists" means
Reference(s, exists) ==
    IF exists THEN "found"
    ELSE IF FirstSegment(s) \in pBackupSet THEN "backup"
    ELSE IF s \in pDeletedSet THEN "redownload"
    ELSE "missing"

\* base_path/path exists: base_path, a "/" and the path for the relative paths
\* the file list is made of; a line that is an absolute path names itself
ExistsAsProbed(s) ==
    IF s[1] = "/" THEN os_path_normpath(s) \in pFs
    ELSE os_path_normpath(pArgs.base_path \o <<"/">> \o s) \in pFs

\* each stream holds exactly the considered paths of its category, in order
StreamsFollow(Category(_)) ==
    \A k \in Streams :
        LET Mine(s) == Category(s) = k
        IN  pOut[k] = SelectSeq(ConsideredSeen, Mine)

\* C3: the stream of every considered path is the reference function's
\* category (FOUND if base_path/path exists, else BACKUP if the first segment
\* is in the allowlist, else REDOWNLOAD if the exact string is in the deleted
\* set, else MISSING); existing paths are FOUND even when
\* backup-listed, absent backup-listed paths are BACKUP even when deleted, and
\* in the scenario of the allowlist {tv} and the deleted set {movies/A/a.mkv}
\* with both files absent movies/A/a.mkv is REDOWNLOAD and tv/B/b.mkv BACKUP
C3_CategoryIsReference ==
    (IsPlan /\ PlanOpened) =>
        LET Category(s) == Reference(s, ExistsAsProbed(s))
            seen == ConsideredSeen
            In(k, s) == \E j \in 1..Len(pOut[k]) : pOut[k][j] = s
        IN  /\ StreamsFollow(Category)
            /\ \A i \in 1..Len(seen) :
                 /\ (ExistsAsProbed(seen[i]) /\ FirstSegment(seen[i]) \in pBackupSet)
                       => In("found", seen[i]) /\ ~In("backup", seen[i])
                 /\ (/\ ~ExistsAsProbed(seen[i])
                     /\ FirstSegment(seen[i]) \in pBackupSet
                     /\ seen[i] \in pDeletedSet)
                       => In("backup", seen[i]) /\ ~In("redownload", seen[i])
            /\ (/\ pBackupSet = {<<"tv">>}
                /\ pDeletedSet = {MoviePath}
                /\ Under(MoviePath) \notin pFs /\ Under(TvPath) \notin pFs)
                  => \A i \in 1..Len(seen) :
                       /\ seen[i] = MoviePath => In("redownload", seen[i])
                       /\ seen[i] = TvPath => In("backup", seen[i])

\* the scenario has run to its end, and so has a run with a path both on the
\* filesystem and backup-listed
C3_Witness ==
    /\ IsPlan /\ pc = "exit" /\ exitCode = 0
    /\ \/ /\ pBackupSet = {<<"tv">>} /\ pDeletedSet = {MoviePath} /\ pFs = {}
          /\ pOut["redownload"] = <<MoviePath>>
          /\ pOut["backup"] = <<TvPath>>
          /\ pOut["missing"] = <<TvxPath>>
       \/ /\ pBackupSet = {<<"tv">>} /\ pFs = {Under(TvPath)}
          /\ pOut["found"] = <<TvPath>>

(***************************************************************************)
(* recovery_restore.py                                                     *)
(***************************************************************************)
\* the working directory of the run
Cwd == <<"/", "w">>

os_path_abspath(p) ==
    IF os_path_isabs(p) THEN os_path_normpath(p)
    ELSE os_path_normpath(os_path_join(Cwd, p))

\* os.path.dirname(p)
os_path_dirname(p) ==
    LET slashes == {i \in 1..Len(p) : p[i] = "/"}
        i == IF slashes = {} THEN 0
             ELSE CHOOSE k \in slashes : \A j \in slashes : j <= k
        head == SubSeq(p, 1, i)
    IN  IF head # <<>> /\ \E j \in 1..Len(head) : head[j] # "/"
           THEN RStrip(head, "/")
           ELSE head

os_path_isfile(fs, p) == os_path_normpath(p) \in DOMAIN fs.files

os_path_isdir(fs, p) == os_path_normpath(p) \in fs.dirs

\* os.path.exists on the files and directories of fs
PathExists(fs, p) == os_path_isfile(fs, p) \/ os_path_isdir(fs, p)

\* the directories os.makedirs(d) walks through, d included
Prefixes(d) ==
    LET comps == NonEmpty(Split(os_path_normpath(d), "/"))
    IN  {<<"/">> \o Join(SubSeq(comps, 1, k), "/") : k \in 1..Len(comps)}

\* os.makedirs(d, exist_ok=True): mkdir fails where a file is in the way
makedirs(fs, d) ==
    IF \E q \in Prefixes(d) : q \in DOMAIN fs.files
       THEN [ok |-> FALSE, fs |-> fs, created |-> {}]
       ELSE [ok |-> TRUE,
             fs |-> [fs EXCEPT !.dirs = @ \cup Prefixes(d)],
             created |-> Prefixes(d) \ fs.dirs]

\* classify_line(relpath, root, strict_files)
\* every listed path taken as present in the archive
classify_line_without_test(fs, relpath, root, strict_files) ==
    LET s == strip(relpath)
    IN  [rel |-> s, ok |-> s # <<>>, src |-> os_path_normpath(os_path_join(root, s))]

classify_line(fs, relpath, root, strict_files) ==
    LET s == strip(relpath)
        src == os_path_normpath(os_path_join(root, s))
    IN  IF s = <<>> THEN [rel |-> s, ok |-> FALSE, src |-> <<>>]
        ELSE [rel |-> s,
              ok |-> IF strict_files THEN os_path_isfile(fs, src)
                     ELSE PathExists(fs, src),
              src |-> src]

\* a guard that forgets the separator after the root
safe_join_prefix_only(root, rel) ==
    LET full == os_path_normpath(os_path_join(root, rel))
        root_abs == os_path_abspath(root)
        full_abs == os_path_abspath(full)
    IN  [ok |-> full_abs = root_abs \/ StartsWith(full_abs, root_abs),
         path |-> full_abs]

\* safe_join(root, rel): ok is FALSE where the code raises ValueError
safe_join(root, rel) ==
    LET full == os_path_normpath(os_path_join(root, rel))
        root_abs == os_path_abspath(root)
        full_abs == os_path_abspath(full)
    IN  [ok |-> full_abs = root_abs \/ StartsWith(full_abs, root_abs \o <<"/">>),
         path |-> full_abs]

\* a restore step that copies over a destination that is there
RestoreDecisionOverwrite(fs, dst, src) ==
    IF os_path_isdir(fs, src) THEN "skip" ELSE "copy"

\* the existence test made on the destination's directory
RestoreDecisionTestsDirectory(fs, dst, src) ==
    IF PathExists(fs, os_path_dirname(dst)) THEN "skip"
    ELSE IF os_path_isdir(fs, src) THEN "skip"
    ELSE "copy"

\* what the restore step does with a destination its directory exists for
RestoreDecision(fs, dst, src) ==
    IF PathExists(fs, dst) THEN "skip"
    ELSE IF os_path_isdir(fs, src) THEN "skip"
    ELSE "copy"

\* shutil.copy2(src, dst): the copy is made, or it raises with nothing
\* written, or it raises with a part of the content written
CopyOutcomes == {"copied", "failed", "partial"}

Content(src, whole) == [of |-> src, whole |-> whole]

WriteFile(fs, dst, content) ==
    [fs EXCEPT !.files = [q \in DOMAIN @ \cup {dst} |->
                            IF q = dst THEN content ELSE @[q]]]

\* the error log is never written
LogWithoutErrors(out, name, line) ==
    IF name = "errors" THEN out ELSE [out EXCEPT ![name] = Append(@, line)]

\* f.write(line) on one of the output files
Log(out, name, line) == [out EXCEPT ![name] = Append(@, line)]

\* ---- the inputs of a run
ArchiveRoot == <<"/", "m">>
RestoreRoot == <<"/", "r">>

RestoreLines ==
    { <<"a", "/", "f">>,
      <<"a", "/", "g">>,
      <<"d">>,                              \* a directory of the archive
      <<" ">>,                              \* a blank line
      <<"..", "/", "r", "x", "/", "f">>,    \* names /rx/f, a file that exists
      <<"..", "/", "x">>,                   \* names /x, which does not exist
      <<"/", "m", "/", "a", "/", "f">> }    \* an absolute path

FilesOf(pairs) ==
    [q \in {x[1] : x \in pairs} |-> (CHOOSE x \in pairs : x[1] = q)[2]]

Original(paths) == {<<q, Content(q, TRUE)>> : q \in paths}

ArchiveTrees ==
    { [files |-> Original({<<"/", "m", "/", "a", "/", "f">>,
                           <<"/", "m", "/", "a", "/", "g">>,
                           <<"/", "r", "x", "/", "f">>}),
       dirs |-> {<<"/">>, <<"/", "m">>, <<"/", "m", "/", "a">>,
                 <<"/", "m", "/", "d">>, <<"/", "r", "x">>}],
      [files |-> Original({<<"/", "m", "/", "a", "/", "f">>}),
       dirs |-> {<<"/">>, <<"/", "m">>, <<"/", "m", "/", "a">>}] }

DestinationTrees ==
    { [files |-> {}, dirs |-> {}],
      [files |-> {<<RestoreRoot \o <<"/", "a", "/", "f">>,
                    Content(<<"old">>, TRUE)>>},
       dirs |-> {RestoreRoot, RestoreRoot \o <<"/", "a">>}],
      [files |-> {<<RestoreRoot \o <<"/", "a">>, Content(<<"old">>, TRUE)>>},
       dirs |-> {RestoreRoot}] }

\* every destination under the archive that has everything, and the archive
\* that lacks files with the destination that does not exist yet
RestoreFilesystems ==
    { [files |-> FilesOf(t[1].files \cup t[2].files),
       dirs |-> t[1].dirs \cup t[2].dirs] :
        t \in {u \in ArchiveTrees \X DestinationTrees :
                  Cardinality(u[1].files) = 3 \/ u[2].dirs = {}} }

RestoreArgSets ==
    { [input_isfile |-> TRUE, archive_path |-> ArchiveRoot,
       restore_path |-> RestoreRoot, folder |-> None, strict_files |-> FALSE],
      [input_isfile |-> TRUE, archive_path |-> ArchiveRoot,
       restore_path |-> RestoreRoot, folder |-> <<"a">>, strict_files |-> TRUE],
      [input_isfile |-> TRUE, archive_path |-> ArchiveRoot,
       restore_path |-> None, folder |-> None, strict_files |-> FALSE],
      [input_isfile |-> FALSE, archive_path |-> ArchiveRoot,
       restore_path |-> RestoreRoot, folder |-> None, strict_files |-> FALSE],
      [input_isfile |-> TRUE, archive_path |-> <<"/", "m", "/", "a", "/", "f">>,
       restore_path |-> RestoreRoot, folder |-> None, strict_files |-> FALSE] }

InitRestore ==
    /\ prog = "recovery_restore"
    /\ pc = "start"
    /\ exitCode = -1
    /\ crash = ""
    /\ rArgs \in RestoreArgSets
    /\ rInput \in SeqsUpTo(RestoreLines, MaxRestoreLines)
    /\ ~rArgs.input_isfile => rInput = <<>>
    /\ rFs \in RestoreFilesystems
    /\ rRun = 1 /\ rLine = 0
    /\ rOut = <<>> /\ rPrev = <<>> /\ rCount = <<>> /\ rFsLog = <<>>
    /\ IdleOthers("restore")

IsRestore == prog = "recovery_restore"

\* `if args.restore_path:`
RestoreMode == rArgs.restore_path # None /\ rArgs.restore_path # <<>>

FsWrite(op, path) == [run |-> rRun, line |-> rLine, op |-> op, path |-> path]

\* main up to the opening of the output files
RStart ==
    /\ IsRestore /\ pc = "start"
    /\ IF ~rArgs.input_isfile
          THEN Exit(2) /\ UNCHANGED <<rFs, rLine, rOut, rCount, rFsLog>>
       ELSE IF ~os_path_isdir(rFs, rArgs.archive_path)
          THEN Exit(2) /\ UNCHANGED <<rFs, rLine, rOut, rCount, rFsLog>>
       ELSE LET needed == /\ rArgs.restore_path # None
                          /\ ~os_path_isdir(rFs, rArgs.restore_path)
                md == makedirs(rFs, os_path_abspath(rArgs.restore_path))
            IN  IF needed /\ ~md.ok
                   THEN Exit(2) /\ UNCHANGED <<rFs, rLine, rOut, rCount, rFsLog>>
                ELSE /\ rFs' = IF needed THEN md.fs ELSE rFs
                     /\ rFsLog' = IF needed /\ md.created # {}
                                     THEN Append(rFsLog,
                                            FsWrite("mkdir", rArgs.restore_path))
                                     ELSE rFsLog
                     /\ rOut' = [k \in IF RestoreMode
                                         THEN {"confirmed", "missing", "ok",
                                               "skipped", "errors"}
                                         ELSE {"confirmed", "missing"} |-> <<>>]
                     /\ rCount' = [total |-> 0, blanks |-> 0, filtered |-> 0,
                                   confirmed |-> 0, missing |-> 0,
                                   r_ok |-> 0, r_skip |-> 0, r_err |-> 0]
                     /\ rLine' = 1
                     /\ Goto("loop")
    /\ UNCHANGED <<prog, rArgs, rInput, rRun, rPrev, otherThanRestore>>

\* the restore of one confirmed path: lines 196-222
RestoreOne(rel, src, outcome, out, count) ==
    LET sj == safe_join(rArgs.restore_path, rel)
        md == makedirs(rFs, os_path_dirname(sj.path))
        mkdirs == IF md.created = {} THEN <<>>
                  ELSE <<FsWrite("mkdir", os_path_dirname(sj.path))>>
        Error(msg) == /\ rOut' = Log(out, "errors", rel \o <<"\t", msg>>)
                      /\ rCount' = [count EXCEPT !.r_err = @ + 1]
        Skipped == /\ rOut' = Log(out, "skipped", rel)
                   /\ rCount' = [count EXCEPT !.r_skip = @ + 1]
    IN  IF ~sj.ok
           THEN Error("Unsafe path outside root") /\ UNCHANGED <<rFs, rFsLog>>
        ELSE IF ~md.ok
           THEN Error("makedirs") /\ UNCHANGED <<rFs, rFsLog>>
        ELSE IF RestoreDecision(md.fs, sj.path, src) = "skip"
           THEN Skipped /\ rFs' = md.fs /\ rFsLog' = rFsLog \o mkdirs
        ELSE IF outcome = "copied"
           THEN /\ rOut' = Log(out, "ok", rel)
                /\ rCount' = [count EXCEPT !.r_ok = @ + 1]
                /\ rFs' = WriteFile(md.fs, sj.path, Content(src, TRUE))
                /\ rFsLog' = rFsLog \o mkdirs \o <<FsWrite("copy", sj.path)>>
        ELSE IF outcome = "partial"
           THEN /\ Error("copy2")
                /\ rFs' = WriteFile(md.fs, sj.path, Content(src, FALSE))
                /\ rFsLog' = rFsLog \o mkdirs \o <<FsWrite("copy", sj.path)>>
        ELSE Error("copy2") /\ rFs' = md.fs /\ rFsLog' = rFsLog \o mkdirs

\* one iteration of `for idx, line in enumerate(fin, 1)`
RLine ==
    /\ IsRestore /\ pc = "loop"
    /\ rLine <= Len(rInput)
    /\ \E outcome \in CopyOutcomes :
         LET s == strip(rInput[rLine])
             count == [rCount EXCEPT !.total = @ + 1]
             c == classify_line(rFs, s, rArgs.archive_path, rArgs.strict_files)
         IN  IF s = <<>>
                THEN /\ rCount' = [count EXCEPT !.blanks = @ + 1]
                     /\ UNCHANGED <<rOut, rFs, rFsLog>>
             ELSE IF ~folder_matcher_restore(rArgs.folder, s)
                THEN /\ rCount' = [count EXCEPT !.filtered = @ + 1]
                     /\ UNCHANGED <<rOut, rFs, rFsLog>>
             ELSE IF ~c.ok
                THEN /\ rOut' = Log(rOut, "missing", c.rel)
                     /\ rCount' = [count EXCEPT !.missing = @ + 1]
                     /\ UNCHANGED <<rFs, rFsLog>>
             ELSE IF ~RestoreMode
                THEN /\ rOut' = Log(rOut, "confirmed", c.rel)
                     /\ rCount' = [count EXCEPT !.confirmed = @ + 1]
                     /\ UNCHANGED <<rFs, rFsLog>>
             ELSE RestoreOne(c.rel, c.src, outcome,
                             Log(rOut, "confirmed", c.rel),
                             [count EXCEPT !.confirmed = @ + 1])
    /\ rLine' = rLine + 1
    /\ Goto("loop")
    /\ UNCHANGED <<prog, rArgs, rInput, rRun, rPrev, otherThanRestore>>

\* the end of the input: the files are closed and the summary printed
RFinish ==
    /\ IsRestore /\ pc = "loop"
    /\ rLine > Len(rInput)
    /\ Exit(0)
    /\ UNCHANGED <<prog, varsRestore, otherThanRestore>>

\* the same command is run again on what the first run left
RAgain ==
    /\ IsRestore /\ pc = "exit" /\ exitCode = 0
    /\ RestoreMode /\ rRun = 1
    /\ rRun' = 2
    /\ rPrev' = rOut
    /\ rLine' = 0
    /\ pc' = "start" /\ exitCode' = -1 /\ crash' = ""
    /\ UNCHANGED <<prog, rArgs, rInput, rFs, rOut, rCount, rFsLog,
                   otherThanRestore>>

NextRestore == RStart \/ RLine \/ RFinish \/ RAgain

SpecRestore == InitRestore /\ [][NextRestore]_vars

\* ---- a run that is terminated and the same command run again
\* the process is ended by a signal: before the loop, between two lines of
\* the list, or inside shutil.copy2 (line 215), which has created the
\* destination and written a part of it; nothing more is logged
RTerminate ==
    /\ IsRestore /\ RestoreMode /\ rRun = 1
    /\ pc \in {"start", "loop"}
    /\ \E inCopy \in BOOLEAN :
         IF inCopy
            THEN /\ pc = "loop" /\ rLine <= Len(rInput)
                 /\ LET s  == strip(rInput[rLine])
                        c  == classify_line(rFs, s, rArgs.archive_path,
                                            rArgs.strict_files)
                        sj == safe_join(rArgs.restore_path, c.rel)
                        md == makedirs(rFs, os_path_dirname(sj.path))
                    IN  /\ s # <<>> /\ folder_matcher_restore(rArgs.folder, s)
                        /\ c.ok /\ sj.ok /\ md.ok
                        /\ RestoreDecision(md.fs, sj.path, c.src) = "copy"
                        /\ rFs' = WriteFile(md.fs, sj.path, Content(c.src, FALSE))
                        /\ rFsLog' = rFsLog \o
                               (IF md.created = {} THEN <<>>
                                ELSE <<FsWrite("mkdir", os_path_dirname(sj.path))>>)
                               \o <<FsWrite("copy", sj.path)>>
                        /\ rOut' = Log(rOut, "confirmed", c.rel)
            ELSE UNCHANGED <<rFs, rFsLog, rOut>>
    /\ pc' = "exit" /\ exitCode' = 143 /\ crash' = "SIGTERM"
    /\ UNCHANGED <<prog, rArgs, rInput, rRun, rLine, rPrev, rCount,
                   otherThanRestore>>

\* the same command is run again after the termination
RResume ==
    /\ IsRestore /\ pc = "exit" /\ crash = "SIGTERM"
    /\ rRun = 1
    /\ rRun' = 2
    /\ rPrev' = rOut
    /\ rLine' = 0
    /\ pc' = "start" /\ exitCode' = -1 /\ crash' = ""
    /\ UNCHANGED <<prog, rArgs, rInput, rFs, rOut, rCount, rFsLog,
                   otherThanRestore>>

NextResume == RStart \/ RLine \/ RFinish \/ RTerminate \/ RResume

SpecResume == InitRestore /\ [][NextResume]_vars

(***************************************************************************)
(* Properties of recovery_restore                                          *)
(***************************************************************************)
Elems(seq) == {seq[i] : i \in 1..Len(seq)}

\* the output files of this run have been opened
RestoreOpened == IsRestore /\ pc # "start" /\ DOMAIN rOut # {}

\* the lines this run has been through
RestoreSeenIdx == IF RestoreOpened THEN 1..(rLine - 1) ELSE {}

\* the '/'-separated components of a path
Components(path) == NonEmpty(Split(path, "/"))

\* the destination of a listed path lies outside restore_root: the components
\* of restore_root are not the first components of restore_root joined with
\* the path and normalized
Escapes(s) ==
    LET root == Components(os_path_abspath(rArgs.restore_path))
        dest == Components(os_path_abspath(os_path_join(rArgs.restore_path, s)))
    IN  ~(Len(root) <= Len(dest) /\ SubSeq(dest, 1, Len(root)) = root)

\* the paths of the entries of restored_errors.txt
ErrorPaths(out) == {Split(e, "\t")[1] : e \in Elems(out["errors"])}

\* no directory was created and no file copied for line i of the list
NoWriteFor(i) == \A k \in 1..Len(rFsLog) : rFsLog[k].line # i

\* the source of a listed path is found under the archive path
InArchive(s) ==
    classify_line(rFs, s, rArgs.archive_path, rArgs.strict_files).ok

\* C4 as stated: every listed path whose destination lies outside restore_root
\* has no directory created and no file copied for it and is recorded as an
\* ERROR
C4_EscapingPathIsError ==
    (RestoreOpened /\ RestoreMode) =>
        \A i \in RestoreSeenIdx :
            LET s == strip(rInput[i])
            IN  (s # <<>> /\ Escapes(s)) =>
                    NoWriteFor(i) /\ s \in ErrorPaths(rOut)

\* C4: for every listed path whose destination lies outside restore_root no
\* directory is created and no file copied, and the path is never recorded OK
\* or SKIPPED; if it passes the folder filter and its source is found under
\* the archive path, safe_join rejects it and it is recorded as an ERROR;
\* if its source is not found it is recorded backup_missing, not as an ERROR
C4_EscapingPathIsNeverWritten ==
    (RestoreOpened /\ RestoreMode) =>
        \A i \in RestoreSeenIdx :
            LET s == strip(rInput[i])
            IN  (s # <<>> /\ Escapes(s)) =>
                    /\ NoWriteFor(i)
                    /\ s \notin Elems(rOut["ok"])
                    /\ s \notin Elems(rOut["skipped"])
                    /\ IF folder_matcher(rArgs.folder, s) /\ InArchive(s)
                          THEN /\ s \o <<"\t", "Unsafe path outside root">>
                                     \in Elems(rOut["errors"])
                               /\ s \in Elems(rOut["confirmed"])
                          ELSE /\ s \notin ErrorPaths(rOut)
                               /\ folder_matcher(rArgs.folder, s)
                                     => s \in Elems(rOut["missing"])

\* a run went through a traversal into a sibling directory that shares the
\* root as a string prefix and through an absolute path, both found by the
\* verify step, and recorded both as errors
C4_Witness ==
    /\ IsRestore /\ RestoreMode /\ pc = "exit" /\ exitCode = 0 /\ rRun = 1
    /\ rInput = << <<"..", "/", "r", "x", "/", "f">>,
                   <<"/", "m", "/", "a", "/", "f">> >>
    /\ rOut["confirmed"] = rInput
    /\ rOut["errors"] = << rInput[1] \o <<"\t", "Unsafe path outside root">>,
                           rInput[2] \o <<"\t", "Unsafe path outside root">> >>
    /\ rCount.r_err = 2

\* the second run of the command has ended
SecondRunDone == IsRestore /\ rRun = 2 /\ pc = "exit" /\ exitCode = 0

\* a step leaves every file that exists with the content it has
FilesKeepContent ==
    (IsRestore /\ DOMAIN rFs # {}) =>
        \A q \in DOMAIN rFs.files :
            q \in DOMAIN rFs'.files /\ rFs'.files[q] = rFs.files[q]

\* a line of the list that is not blank and passes the folder filter
RestoreConsidered(line) ==
    strip(line) # <<>> /\ folder_matcher(rArgs.folder, strip(line))

RestoreRaises(s) ==
    \/ Escapes(s)
    \/ \E q \in Prefixes(os_path_dirname(safe_join(rArgs.restore_path, s).path)) :
           q \in DOMAIN rFs.files

\* a step appends one line to an output file, or leaves it as it is
Appended(name) ==
    /\ Len(rOut'[name]) = Len(rOut[name]) + 1
    /\ SubSeq(rOut'[name], 1, Len(rOut[name])) = rOut[name]

NotWritten(name) == rOut'[name] = rOut[name]

\* C18: in restore mode every step of the loop goes on to the next line
\* without ending the run; a path that passes the filter and is found in
\* the archive is recorded confirmed and then in exactly one of OK, SKIPPED
\* and ERROR; it is an ERROR when the restore raises (path escape, directory
\* creation failure), and every ERROR entry, a copy failure included, is
\* the one line 'path<TAB>error text' for that path
C18_RestoreErrorIsLoggedAndRunGoesOn ==
    [][(IsRestore /\ RestoreMode /\ pc = "loop" /\ rLine <= Len(rInput)) =>
          /\ pc' = "loop" /\ rLine' = rLine + 1 /\ crash' = ""
          /\ LET s == strip(rInput[rLine])
             IN  (s # <<>> /\ folder_matcher_restore(rArgs.folder, s) /\ InArchive(s)) =>
                    /\ rOut'["confirmed"] = Append(rOut["confirmed"], s)
                    /\ NotWritten("missing")
                    /\ \/ Appended("ok") /\ NotWritten("skipped") /\ NotWritten("errors")
                       \/ NotWritten("ok") /\ Appended("skipped") /\ NotWritten("errors")
                       \/ NotWritten("ok") /\ NotWritten("skipped") /\ Appended("errors")
                    /\ RestoreRaises(s) => Appended("errors")
                    /\ Appended("errors") =>
                          LET e == rOut'["errors"][Len(rOut'["errors"])]
                          IN  /\ Len(e) = Len(s) + 2
                              /\ SubSeq(e, 1, Len(s)) = s
                              /\ e[Len(s) + 1] = "\t"
       ]_vars

\* a run ended after a path that escapes the restore root, logged as one
\* error, and a later path that was then copied
C18_Witness ==
    /\ IsRestore /\ RestoreMode /\ pc = "exit" /\ exitCode = 0 /\ rRun = 1
    /\ rInput = << <<"..", "/", "r", "x", "/", "f">>, <<"a", "/", "g">> >>
    /\ rOut["errors"] = << rInput[1] \o <<"\t", "Unsafe path outside root">> >>
    /\ rOut["ok"] = << <<"a", "/", "g">> >>
    /\ rCount.r_err = 1 /\ rCount.r_ok = 1

\* a step of the loop in restore mode records the path of its line SKIPPED
SkipsLine ==
    /\ IsRestore /\ RestoreMode /\ pc = "loop" /\ rLine <= Len(rInput)
    /\ Appended("skipped")

\* the destination and the source of the line the loop is at
DestinationOfLine == safe_join(rArgs.restore_path, strip(rInput[rLine])).path

SourceOfLine ==
    classify_line(rFs, rInput[rLine], rArgs.archive_path, rArgs.strict_files).src

FoundInArchive(s) ==
    LET src == os_path_join(rArgs.archive_path, s)
    IN  IF rArgs.strict_files THEN os_path_isfile(rFs, src) ELSE PathExists(rFs, src)

\* the lines this run has been through that are not blank and pass the filter
ConsideredIdx ==
    {i \in RestoreSeenIdx :
        /\ strip(rInput[i]) # <<>>
        /\ folder_matcher_restore(rArgs.folder, strip(rInput[i]))}

\* C28: in restore mode every non-blank line that passes the filter is
\* recorded in exactly one of confirmed and backup_missing, confirmed iff its
\* source is in the archive; every confirmed path has exactly one outcome
\* among OK, SKIPPED and ERROR, so that r_ok + r_skip + r_err = confirmed;
\* and a path whose source is absent has no restore outcome and nothing is
\* created or copied for it.
C28_EveryPathHasOneVerdictAndOneOutcome ==
    (RestoreOpened /\ RestoreMode) =>
        LET found  == {i \in ConsideredIdx : FoundInArchive(strip(rInput[i]))}
            absent == ConsideredIdx \ found
        IN  /\ Len(rOut["confirmed"]) = Cardinality(found)
            /\ Len(rOut["missing"]) = Cardinality(absent)
            /\ \A i \in found : /\ strip(rInput[i]) \in Elems(rOut["confirmed"])
                                 /\ strip(rInput[i]) \notin Elems(rOut["missing"])
            /\ \A i \in absent :
                  LET s == strip(rInput[i])
                  IN  /\ s \in Elems(rOut["missing"])
                      /\ s \notin Elems(rOut["confirmed"])
                      /\ s \notin Elems(rOut["ok"]) \cup Elems(rOut["skipped"])
                                      \cup ErrorPaths(rOut)
                      /\ NoWriteFor(i)
            /\ rCount.confirmed = Len(rOut["confirmed"])
            /\ rCount.missing = Len(rOut["missing"])
            /\ rCount.r_ok = Len(rOut["ok"])
            /\ rCount.r_skip = Len(rOut["skipped"])
            /\ rCount.r_err = Len(rOut["errors"])
            /\ rCount.r_ok + rCount.r_skip + rCount.r_err = rCount.confirmed

\* a first run ended with one path confirmed and copied and another path
\* absent from the archive and recorded missing
C28_Witness ==
    /\ IsRestore /\ RestoreMode /\ pc = "exit" /\ exitCode = 0 /\ rRun = 1
    /\ Len(rOut["confirmed"]) = 1 /\ Len(rOut["missing"]) = 1
    /\ rCount.r_ok = 1 /\ rCount.r_skip = 0 /\ rCount.r_err = 0

\* C12: when a run in restore mode is terminated at any point, also in the
\* middle of copying a file, and the same list is run again to completion
\* against the same archive, every listed path whose source is a regular
\* file of the archive has a complete copy of it at its destination
\* (paths the second run reports as errors set aside, and files that were
\* at the destination before the restore left as they are)
C12_ResumeLeavesCompleteCopies ==
    (SecondRunDone /\ RestoreMode) =>
        \A i \in 1..Len(rInput) :
            LET s   == strip(rInput[i])
                c   == classify_line(rFs, s, rArgs.archive_path, rArgs.strict_files)
                dst == safe_join(rArgs.restore_path, s)
            IN  ( /\ RestoreConsidered(rInput[i])
                  /\ c.ok /\ os_path_isfile(rFs, c.src)
                  /\ dst.ok
                  /\ s \notin ErrorPaths(rOut) )
                    => /\ dst.path \in DOMAIN rFs.files
                       /\ rFs.files[dst.path].of = c.src
                             => rFs.files[dst.path].whole

(***************************************************************************)
(* recovery_analysis.py                                                    *)
(***************************************************************************)
ROOT_BUCKET == <<"(root)">>

\* bucket_keys_for_path(path, levels): the key of each level 1..levels
bucket_keys_for_path(path, levels) ==
    LET parts == Split(path, "/")
        dir_parts == SubSeq(parts, 1, Len(parts) - 1)
    IN  [n \in 1..levels |->
            IF Len(dir_parts) = 0 THEN ROOT_BUCKET
            ELSE IF Len(dir_parts) >= n THEN Join(SubSeq(dir_parts, 1, n), "/")
            ELSE Join(dir_parts, "/")]

\* counter[key] += 1 on a defaultdict(int)
Increment(counter, key) ==
    IF key \in DictKeys(counter)
       THEN DictSet(counter, key, DictGet(counter, key) + 1)
       ELSE DictSet(counter, key, 1)

\* the sheet "Level i": the rows sorted by key, then the totals row
Sheet(i, counter, backup_set) ==
    LET items == SortedBy(counter, 1)
        Row(item) ==
            LET key == item[1]
                parts == IF key = ROOT_BUCKET THEN <<>> ELSE Split(key, "/")
                top_level == IF parts # <<>> THEN parts[1] ELSE ROOT_BUCKET
            IN  [backup |-> IF top_level \in backup_set THEN "true" ELSE "",
                 count |-> item[2],
                 path |-> [idx \in 1..i |->
                             IF idx <= Len(parts) THEN parts[idx]
                             ELSE IF key = ROOT_BUCKET /\ idx = 1 THEN ROOT_BUCKET
                             ELSE <<>>]]
        RECURSIVE Sum(_)
        Sum(rows) == IF rows = <<>> THEN 0 ELSE Head(rows)[2] + Sum(Tail(rows))
    IN  [title |-> i,
         rows |-> [k \in 1..Len(items) |-> Row(items[k])],
         total |-> Sum(items)]

\* ---- the inputs of a run
AnalysisLines ==
    { MoviePath, TvPath, <<"b.mkv">>,
      <<" ">>,
      <<" ">> \o TvxPath \o <<" ">> }

AnalysisArgSets ==
    { [levels |-> 2, input_isfile |-> TRUE, folder |-> None],
      [levels |-> 1, input_isfile |-> TRUE, folder |-> <<"tv", "/">>],
      [levels |-> 0, input_isfile |-> TRUE, folder |-> None],
      [levels |-> 1, input_isfile |-> FALSE, folder |-> None] }

InitAnalysis ==
    /\ prog = "recovery_analysis"
    /\ pc = "start"
    /\ exitCode = -1
    /\ crash = ""
    /\ anArgs \in AnalysisArgSets
    /\ anInput \in SeqsUpTo(AnalysisLines, MaxAnalysisLines)
    /\ ~anArgs.input_isfile => anInput = <<>>
    /\ anBackupFile \in {File(<< <<"tv">> >>), NoFile}
    /\ anLine = 0 /\ anCount = <<>> /\ anCounters = <<>>
    /\ anOutDir = FALSE /\ anBook = <<>>
    /\ IdleOthers("analysis")

IsAnalysis == prog = "recovery_analysis"

\* validate_args, and main up to the loop
AnStart ==
    /\ IsAnalysis /\ pc = "start"
    /\ IF anArgs.levels < 1
          THEN Exit(2) /\ UNCHANGED <<anLine, anCount, anCounters>>
       ELSE IF ~anArgs.input_isfile
          THEN Exit(2) /\ UNCHANGED <<anLine, anCount, anCounters>>
       ELSE IF count_lines_binary(anInput) = 0
          THEN Exit(2) /\ UNCHANGED <<anLine, anCount, anCounters>>
       ELSE /\ anCounters' = [n \in 1..anArgs.levels |-> <<>>]
            /\ anCount' = [processed |-> 0, filtered_out |-> 0, blank_lines |-> 0]
            /\ anLine' = 1
            /\ Goto("loop")
    /\ UNCHANGED <<prog, anArgs, anInput, anBackupFile, anOutDir, anBook,
                   otherThanAnalysis>>

\* one iteration of `for line in f`
AnLine ==
    /\ IsAnalysis /\ pc = "loop"
    /\ anLine <= Len(anInput)
    /\ LET s == strip(anInput[anLine])
           keys == bucket_keys_for_path(s, anArgs.levels)
       IN  IF s = <<>>
              THEN /\ anCount' = [anCount EXCEPT !.blank_lines = @ + 1]
                   /\ UNCHANGED anCounters
           ELSE IF ~folder_matcher_analysis(anArgs.folder, s)
              THEN /\ anCount' = [anCount EXCEPT !.filtered_out = @ + 1]
                   /\ UNCHANGED anCounters
           ELSE /\ anCount' = [anCount EXCEPT !.processed = @ + 1]
                /\ anCounters' = [n \in 1..anArgs.levels |->
                                    Increment(anCounters[n], keys[n])]
    /\ anLine' = anLine + 1
    /\ Goto("loop")
    /\ UNCHANGED <<prog, anArgs, anInput, anBackupFile, anOutDir, anBook,
                   otherThanAnalysis>>

\* after the loop: the processed test, out/, the backup set, the workbook
AnFinish ==
    /\ IsAnalysis /\ pc = "loop"
    /\ anLine > Len(anInput)
    /\ IF anCount.processed = 0
          THEN Exit(2) /\ UNCHANGED <<anOutDir, anBook>>
       ELSE IF ~anBackupFile.isfile
          THEN Exit(2) /\ anOutDir' = TRUE /\ UNCHANGED anBook
       ELSE /\ anOutDir' = TRUE
            /\ anBook' = [i \in 1..anArgs.levels |->
                            Sheet(i, anCounters[i],
                                  load_backup_folders(anBackupFile.lines))]
            /\ Exit(0)
    /\ UNCHANGED <<prog, anArgs, anInput, anBackupFile, anLine, anCount, anCounters,
                   otherThanAnalysis>>

NextAnalysis == AnStart \/ AnLine \/ AnFinish

SpecAnalysis == InitAnalysis /\ [][NextAnalysis]_vars

(***************************************************************************)
(* radarr_fix_collections_root.py                                          *)
(***************************************************************************)
MaxCollections == 2

\* str(Path(s)): empty and '.' components dropped, no trailing '/', '.' for
\* the empty path
PathStr(s) ==
    LET comps == SelectSeq(Split(s, "/"), LAMBDA c : c # <<>> /\ c # <<".">>)
    IN  IF StartsWith(s, <<"/">>) THEN <<"/">> \o Join(comps, "/")
        ELSE IF comps = <<>> THEN <<".">>
        ELSE Join(comps, "/")

\* longest_root(path, roots): the index of the first root folder with the
\* longest path that is a prefix of path, 0 for none
longest_root(path, roots) ==
    LET pp == RStrip(PathStr(path), "/")
        rp(i) == RStrip(PathStr(roots[i].path), "/")
        fits == {i \in 1..Len(roots) : rp(i) # <<>> /\ StartsWith(pp, rp(i))}
    IN  IF fits = {} THEN 0
        ELSE CHOOSE i \in fits :
                \A j \in fits : \/ Len(rp(j)) < Len(rp(i))
                                \/ Len(rp(j)) = Len(rp(i)) /\ i <= j

\* year_key(m): year 0 stands for a year that is absent or not an int
year_key(mv) == <<IF mv.year # 0 THEN mv.year ELSE 99999, mv.added>>

KeyLess(a, b) == a[1] < b[1] \/ (a[1] = b[1] /\ a[2] < b[2])

\* present.sort(key=year_key); present[0]: the first of the movies whose key
\* is smallest (the sort is stable)
OldestOf(present) ==
    present[CHOOSE i \in 1..Len(present) :
               /\ \A j \in 1..Len(present) :
                     ~KeyLess(year_key(present[j]), year_key(present[i]))
               /\ \A j \in 1..(i - 1) :
                     KeyLess(year_key(present[i]), year_key(present[j]))]

\* by_tmdb / by_imdb (lines 92-93): the last movie of the library carrying
\* the id, <<>> for none; id 0 stands for an absent id
Lookup(movies, field, id) ==
    LET at == {i \in 1..Len(movies) : movies[i][field] = id}
    IN  IF id = 0 \/ at = {} THEN <<>>
        ELSE movies[CHOOSE i \in at : \A j \in at : j <= i]

\* resolve_items_to_library(items, by_tmdb, by_imdb)
RECURSIVE resolve_items_to_library(_, _)
resolve_items_to_library(items, movies) ==
    IF items = <<>> THEN <<>>
    ELSE LET it   == Head(items)
             byT  == Lookup(movies, "tmdbId", it.tmdbId)
             mv   == IF byT # <<>> THEN byT ELSE Lookup(movies, "imdbId", it.imdbId)
             rest == resolve_items_to_library(Tail(items), movies)
         IN  IF mv # <<>> THEN <<mv>> \o rest ELSE rest

\* `needle in name`
Contains(str, needle) ==
    \E i \in 1..(Len(str) - Len(needle) + 1) :
        SubSeq(str, i, i + Len(needle) - 1) = needle

\* lines 99-105: the --only and --limit filters (limit 0: not given)
FilterCollections(colls, only, limit) ==
    LET named == IF only = None THEN colls
                 ELSE SelectSeq(colls, LAMBDA c : Contains(Lower(c.name), Lower(only)))
    IN  IF limit # 0 /\ limit < Len(named) THEN SubSeq(named, 1, limit) ELSE named

\* the change applied whatever --execute says
FixDecisionAlwaysApplies(execute, current, desired) ==
    IF current = desired THEN "already" ELSE "put"

\* lines 143-150: what is done with a collection whose root was chosen
FixDecision(execute, current, desired) ==
    IF current = desired THEN "already"
    ELSE IF ~execute THEN "dry"
    ELSE "put"

\* ---- what the service holds
RootFolders ==
    << [path |-> <<"/", "a">>], [path |-> <<"/", "a", "/", "b", "/">>],
       [path |-> <<"/", "c">>] >>

LibraryMovies ==
    << [tmdbId |-> 1, imdbId |-> 0, year |-> 1990, added |-> 3,
        path |-> <<"/", "a", "/", "b", "/", "x">>],
       [tmdbId |-> 2, imdbId |-> 0, year |-> 2000, added |-> 1,
        path |-> <<"/", "c", "/", "y">>],
       [tmdbId |-> 3, imdbId |-> 0, year |-> 0, added |-> 2,
        path |-> <<"/", "a", "/", "z">>],
       [tmdbId |-> 0, imdbId |-> 5, year |-> 1980, added |-> 4,
        path |-> <<"/", "zz", "/", "q">>] >>

Item(tmdb, imdb) == [tmdbId |-> tmdb, imdbId |-> imdb]

\* item lists: none; two present movies, the older one last; a movie without
\* year and a dated one; a movie that is not in the library; a movie found
\* by its imdb id whose path is under no root folder
ItemLists ==
    { <<>>, <<Item(2, 0), Item(1, 0)>>, <<Item(3, 0), Item(2, 0)>>,
      <<Item(4, 0)>>, <<Item(0, 5)>> }

CollectionsSeen ==
    [name : {<<"Al", "ien">>, <<"Bond">>}, items : ItemLists,
     rootFolderPath : {None, <<"/", "a", "/", "b", "/">>}]

FixArgSets ==
    [execute : BOOLEAN, only : {None}, limit : {0}]
        \cup [execute : BOOLEAN, only : {<<"AL">>}, limit : {1}]

InitFix ==
    /\ prog = "radarr_fix_collections_root"
    /\ pc = "start"
    /\ exitCode = -1
    /\ crash = ""
    /\ \E args \in FixArgSets, colls \in SeqsUpTo(CollectionsSeen, MaxCollections) :
          fnArgs = [args |-> args, roots |-> RootFolders, movies |-> LibraryMovies,
                    colls |-> [i \in 1..Len(colls) |->
                                 [id |-> i, name |-> colls[i].name,
                                  items |-> colls[i].items,
                                  rootFolderPath |-> colls[i].rootFolderPath]]]
    /\ fnRes = <<>>
    /\ IdleOthers("fn")

IsFix == prog = "radarr_fix_collections_root"

\* main, lines 83-113: the three lists are fetched and the collections
\* filtered; an answer that is not a list ends the run, a request that fails
\* raises out of main
FixStart ==
    /\ IsFix /\ pc = "start"
    /\ \E fetched \in {"lists", "no list", "error"} :
         IF fetched = "no list"
            THEN /\ fnRes' = [reqs |-> << <<"GET", "rootfolder">>, <<"GET", "movie">>,
                                         <<"GET", "collection">> >>]
                 /\ Exit(0)
         ELSE IF fetched = "lists"
            THEN /\ fnRes' = [reqs |-> << <<"GET", "rootfolder">>, <<"GET", "movie">>,
                                         <<"GET", "collection">> >>,
                              colls |-> FilterCollections(fnArgs.colls, fnArgs.args.only,
                                                          fnArgs.args.limit),
                              idx |-> 1, log |-> <<>>,
                              updated |-> 0, already |-> 0, skipped |-> 0, failed |-> 0]
                 /\ Goto("loop")
            ELSE /\ fnRes' = [reqs |-> << <<"GET", "rootfolder">> >>]
                 /\ Raise("HTTPError")
    /\ UNCHANGED <<prog, fnArgs, otherThanFn>>

\* one iteration of `for c in colls` (lines 115-162)
FixOne ==
    /\ IsFix /\ pc = "loop"
    /\ fnRes.idx <= Len(fnRes.colls)
    /\ LET c       == fnRes.colls[fnRes.idx]
           reqs    == Append(fnRes.reqs, <<"GET", "collection", c.id>>)
           present == resolve_items_to_library(c.items, fnArgs.movies)
           opath   == OldestOf(present).path
           root    == longest_root(opath, fnArgs.roots)
           desired == fnArgs.roots[root].path
           Done(tag, counter, rq) ==
               /\ fnRes' = [fnRes EXCEPT !.reqs = rq, !.idx = @ + 1,
                                         !.log = Append(@, <<c.id, tag>>),
                                         ![counter] = @ + 1]
               /\ Goto("loop")
           NotCounted(tag, rq) ==
               /\ fnRes' = [fnRes EXCEPT !.reqs = rq, !.idx = @ + 1,
                                         !.log = Append(@, <<c.id, tag>>)]
               /\ Goto("loop")
       IN  \E detail \in BOOLEAN, put \in BOOLEAN :
              IF ~detail
                 THEN fnRes' = [fnRes EXCEPT !.reqs = reqs] /\ Raise("HTTPError")
              ELSE IF present = <<>> THEN Done("SKIP", "skipped", reqs)
              ELSE IF opath = <<>> \/ root = 0 THEN Done("FAIL", "failed", reqs)
              ELSE CASE FixDecision(fnArgs.args.execute, c.rootFolderPath, desired)
                           = "already" -> Done("already correct", "already", reqs)
                     [] FixDecision(fnArgs.args.execute, c.rootFolderPath, desired)
                           = "dry" -> NotCounted("DRY RUN", reqs)
                     [] OTHER ->
                         LET sent == Append(reqs, <<"PUT", "collection", c.id, desired>>)
                         IN  IF put THEN Done("UPDATED", "updated", sent)
                             ELSE Done("FAIL", "failed", sent)
    /\ UNCHANGED <<prog, fnArgs, otherThanFn>>

\* the summary, and the end of main
FixFinish ==
    /\ IsFix /\ pc = "loop"
    /\ fnRes.idx > Len(fnRes.colls)
    /\ Exit(0)
    /\ UNCHANGED <<prog, fnArgs, fnRes, otherThanFn>>

NextFix == FixStart \/ FixOne \/ FixFinish

SpecFix == InitFix /\ [][NextFix]_vars

\* the PUT requests issued so far
FixPuts ==
    {fnRes.reqs[k] : k \in {j \in 1..Len(fnRes.reqs) : fnRes.reqs[j][1] = "PUT"}}

\* the movies of the library a collection's items name
PresentMovies(c) ==
    {mv \in {fnArgs.movies[i] : i \in 1..Len(fnArgs.movies)} :
        \E k \in 1..Len(c.items) :
            \/ c.items[k].tmdbId # 0 /\ mv.tmdbId = c.items[k].tmdbId
            \/ c.items[k].imdbId # 0 /\ mv.imdbId = c.items[k].imdbId}

\* the path of the root folder chosen from the oldest present movie: the
\* movie with the smallest year (no year counting as newest), and the longest
\* root folder its path lies under; <<>> when there is none
ChosenRoot(c) ==
    LET present == PresentMovies(c)
        Year(mv) == IF mv.year = 0 THEN 99999 ELSE mv.year
        oldest  == CHOOSE mv \in present : \A o \in present : Year(mv) <= Year(o)
        IsUnder(r) == LET d == RStrip(r.path, "/")
                    IN  d # <<>> /\ Len(d) <= Len(oldest.path)
                           /\ \A i \in 1..Len(d) : oldest.path[i] = d[i]
        under   == {r \in {fnArgs.roots[i] : i \in 1..Len(fnArgs.roots)} : IsUnder(r)}
    IN  IF present = {} \/ under = {} THEN <<>>
        ELSE (CHOOSE r \in under : \A o \in under : Len(o.path) <= Len(r.path)).path

\* C20: without --execute no PUT request is issued for any collection; with
\* --execute a PUT is issued only for a collection whose current
\* rootFolderPath differs from the root chosen from its oldest present
\* movie, and it carries that root
C20_DryRunUnlessExecute ==
    (IsFix /\ pc # "start" /\ "reqs" \in DOMAIN fnRes) =>
        /\ ~fnArgs.args.execute => FixPuts = {}
        /\ \A rq \in FixPuts :
              LET c == fnArgs.colls[rq[3]]
              IN  /\ fnArgs.args.execute
                  /\ ChosenRoot(c) # <<>>
                  /\ c.rootFolderPath # ChosenRoot(c)
                  /\ rq[4] = ChosenRoot(c)

\* a dry run ended having gone through a collection whose root differs from
\* the chosen one, announced the change and sent no PUT
C20_Witness ==
    /\ IsFix /\ pc = "exit" /\ exitCode = 0
    /\ ~fnArgs.args.execute
    /\ "log" \in DOMAIN fnRes
    /\ \E k \in 1..Len(fnRes.log) : fnRes.log[k][2] = "DRY RUN"
    /\ FixPuts = {}

(***************************************************************************)
(* ombi_tag_sync.py: the retrying HTTP helper                              *)
(***************************************************************************)
MaxRetries == 3

\* backoff_sleep(attempt, base): the time slept, in units of a tenth of a
\* second when base is given in tenths
backoff_sleep(attempt, base) == base * (attempt + 1)

\* what one attempt meets: a response with a status, or an exception of
\* requests (a timeout, a refused connection)
AttemptOutcomes ==
    [kind : {"response"}, status : {200, 404, 499, 500, 503}]
        \cup [kind : {"exception"}, status : {0}]

\* the error an attempt leaves in `last`
ErrorOf(i, outcome) ==
    IF outcome.kind = "response"
        THEN [attempt |-> i, error |-> "HTTPError", status |-> outcome.status]
        ELSE [attempt |-> i, error |-> "RequestException", status |-> 0]

NoError == [attempt |-> -1, error |-> "None", status |-> 0]

\* Http(timeout, max_retries, backoff)._req(method, url): i is the loop
\* index, slept the sleeps made so far, returned the status handed back
InitHttp ==
    /\ prog = "Http._req"
    /\ pc = "start"
    /\ exitCode = -1
    /\ crash = ""
    /\ \E n \in 0..MaxRetries, base \in {5, 15} :
          fnArgs = [max_retries |-> n, backoff |-> base]
    /\ fnRes = [i |-> 0, last |-> NoError, slept |-> <<>>, returned |-> 0,
                raised |-> NoError]
    /\ IdleOthers("fn")

IsHttp == prog = "Http._req"

\* one iteration of `for i in range(self.max_retries)` (lines 58-67)
HttpAttempt ==
    /\ IsHttp /\ pc = "start"
    /\ fnRes.i < fnArgs.max_retries
    /\ \E outcome \in AttemptOutcomes :
          IF outcome.kind = "response" /\ outcome.status < 500
             THEN /\ fnRes' = [fnRes EXCEPT !.i = @ + 1, !.returned = outcome.status]
                  /\ Goto("returned")
             ELSE /\ fnRes' = [fnRes EXCEPT
                                  !.i = @ + 1,
                                  !.last = ErrorOf(fnRes.i, outcome),
                                  !.slept = Append(@, backoff_sleep(fnRes.i,
                                                                    fnArgs.backoff))]
                  /\ Goto("start")
    /\ UNCHANGED <<prog, fnArgs, otherThanFn>>

\* `raise last` after the loop (line 68); with max_retries = 0 last is None
\* and the raise itself is a TypeError
HttpRaise ==
    /\ IsHttp /\ pc = "start"
    /\ fnRes.i >= fnArgs.max_retries
    /\ fnRes' = [fnRes EXCEPT !.raised =
                    IF fnRes.last = NoError
                        THEN [attempt |-> -1, error |-> "TypeError", status |-> 0]
                        ELSE fnRes.last]
    /\ pc' = "raised" /\ UNCHANGED <<exitCode, crash>>
    /\ UNCHANGED <<prog, fnArgs, otherThanFn>>

NextHttp == HttpAttempt \/ HttpRaise

SpecHttp == InitHttp /\ [][NextHttp]_vars

\* C27: _req makes at most max_retries attempts, returns the first response
\* whose status is below 500 without a further attempt, waits the same
\* delay between any two consecutive attempts, and raises the last error
\* when every attempt failed.
C27_BoundedRetriesWithFixedDelay ==
    IsHttp =>
        /\ fnRes.i <= fnArgs.max_retries
        /\ pc = "returned" => fnRes.returned < 500 /\ Len(fnRes.slept) = fnRes.i - 1
        /\ \A j, k \in 1..Len(fnRes.slept) : fnRes.slept[j] = fnRes.slept[k]
        /\ (pc = "raised" /\ fnArgs.max_retries > 0) =>
              /\ fnRes.i = fnArgs.max_retries
              /\ fnRes.raised = fnRes.last
              /\ fnRes.last.attempt = fnArgs.max_retries - 1

(***************************************************************************)
(* ombi_tag_sync.py: the deduplication of the preview rows                 *)
(***************************************************************************)
MaxRows == 3

\* datetime.max, which is offset-naive
DatetimeMax == [aware |-> FALSE, t |-> 9999]

\* parse_iso_dt(dt_str).  A request date is [form, t]: "aware" (ISO-8601
\* with Z or an offset), "naive" (ISO-8601 without), "bad" (not ISO-8601)
\* or "none" (empty); t is its instant.
parse_iso_dt(date) ==
    IF date.form = "aware" THEN [aware |-> TRUE, t |-> date.t]
    ELSE IF date.form = "naive" THEN [aware |-> FALSE, t |-> date.t]
    ELSE DatetimeMax

\* str(id_val) for the ids of the rows
StrOfId(id) == <<DigitTok(id)>>

\* lines 333-337: the key of a row; id 0 stands for None, "" and 0
DedupKey(row) ==
    << strip(row.requester),
       IF row.id # 0 THEN StrOfId(row.id) ELSE Lower(strip(row.title)) >>

BestAt(best, key) == CHOOSE k \in 1..Len(best) : best[k].key = key

\* lines 332-348: the loop over the rows from row i on; best is the dict in
\* insertion order, rows are named by their place in the input
RECURSIVE DedupFrom(_, _, _, _)
DedupFrom(rows, i, best, dropped) ==
    IF i > Len(rows)
        THEN [raised  |-> FALSE,
              deduped |-> [k \in 1..Len(best) |-> best[k].row],
              dropped |-> dropped]
    ELSE LET key == DedupKey(rows[i])
             d   == parse_iso_dt(rows[i].date)
         IN  IF \A k \in 1..Len(best) : best[k].key # key
                THEN DedupFrom(rows, i + 1,
                               Append(best, [key |-> key, d |-> d, row |-> i]), dropped)
             ELSE LET k == BestAt(best, key)
                  IN  IF d.aware # best[k].d.aware
                         \* d < best[key][0] on an aware and a naive datetime
                         THEN [raised |-> TRUE, deduped |-> <<>>, dropped |-> <<>>]
                      ELSE IF d.t < best[k].d.t
                         THEN DedupFrom(rows, i + 1,
                                        [best EXCEPT ![k] = [key |-> key, d |-> d,
                                                             row |-> i]],
                                        Append(dropped, best[k].row))
                      ELSE DedupFrom(rows, i + 1, best, Append(dropped, i))

deduplicate_keep_earliest(rows) == DedupFrom(rows, 1, <<>>, <<>>)

RequestDates ==
    { [form |-> "aware", t |-> 2], [form |-> "naive", t |-> 1],
      [form |-> "naive", t |-> 3], [form |-> "none", t |-> 0] }

RequestRows ==
    [requester : {<<"u">>, <<"v", " ">>}, id : {0, 1},
     title : {<<"Bond">>, <<"bond">>}, date : RequestDates]

InitDedup ==
    /\ prog = "deduplicate_keep_earliest"
    /\ pc = "start"
    /\ exitCode = -1
    /\ crash = ""
    /\ \E rows \in SeqsUpTo(RequestRows, MaxRows) : fnArgs = [rows |-> rows]
    /\ fnRes = <<>>
    /\ IdleOthers("fn")

IsDedup == prog = "deduplicate_keep_earliest"

\* main, line 460: the call; an exception ends the run with [FATAL], exit 1
Deduplicate ==
    /\ IsDedup /\ pc = "start"
    /\ LET r == deduplicate_keep_earliest(fnArgs.rows)
       IN  /\ fnRes' = r
           /\ IF r.raised THEN Raise("TypeError") ELSE Goto("done")
    /\ UNCHANGED <<prog, fnArgs, otherThanFn>>

SpecDedup == InitDedup /\ [][Deduplicate]_vars

\* C30: for every list of rows deduplicate_keep_earliest returns two lists
\* such that every input row is in exactly one of them, deduped has exactly
\* one row per key, and that row has the earliest request date among the
\* rows of its key, the first in input order when dates tie or are missing.
C30_DedupKeepsEarliestPerKey ==
    (IsDedup /\ pc # "start") =>
        LET rows    == fnArgs.rows
            kept    == {fnRes.deduped[k] : k \in 1..Len(fnRes.deduped)}
            removed == {fnRes.dropped[k] : k \in 1..Len(fnRes.dropped)}
            When(i) == parse_iso_dt(rows[i].date).t
        IN  /\ pc = "done"
            /\ kept \cap removed = {} /\ kept \cup removed = 1..Len(rows)
            /\ Len(fnRes.deduped) + Len(fnRes.dropped) = Len(rows)
            /\ \A i \in 1..Len(rows) :
                  Cardinality({k \in kept : DedupKey(rows[k]) = DedupKey(rows[i])}) = 1
            /\ \A k \in kept : \A j \in 1..Len(rows) :
                  DedupKey(rows[j]) = DedupKey(rows[k]) =>
                      \/ When(k) < When(j)
                      \/ When(k) = When(j) /\ k <= j

(***************************************************************************)
(* The three copies of folder_matcher on the same folder and path          *)
(***************************************************************************)
MaxMatchLen == 4

MatchTokens == {"l", "L", "/"}

ExampleFolder == <<"t", "v", "/", "L", "i", "b">>
ExamplePath == <<"t", "v", "/", "L", "i", "b", "r", "a", "r", "y", "/", "x">>

MatchInputs ==
    (({None} \cup SeqsUpTo(MatchTokens, MaxMatchLen))
        \X SeqsUpTo(MatchTokens, MaxMatchLen))
    \cup ({ExampleFolder, ExampleFolder \o <<"/">>}
            \X {ExamplePath, ExampleFolder, ExampleFolder \o <<"/", "x">>})

InitMatch ==
    /\ prog = "folder_matcher"
    /\ pc = "start"
    /\ exitCode = -1
    /\ crash = ""
    /\ \E in \in MatchInputs : fnArgs = [folder |-> in[1], path |-> in[2]]
    /\ fnRes = <<>>
    /\ IdleOthers("fn")

MatchPlan ==
    /\ prog = "folder_matcher" /\ pc = "start"
    /\ fnRes' = [plan |-> folder_matcher(fnArgs.folder, fnArgs.path)]
    /\ Goto("plan")
    /\ UNCHANGED <<prog, fnArgs, otherThanFn>>

MatchRestore ==
    /\ prog = "folder_matcher" /\ pc = "plan"
    /\ fnRes' = [plan |-> fnRes.plan,
                 restore |-> folder_matcher_restore(fnArgs.folder, fnArgs.path)]
    /\ Goto("restore")
    /\ UNCHANGED <<prog, fnArgs, otherThanFn>>

MatchAnalysis ==
    /\ prog = "folder_matcher" /\ pc = "restore"
    /\ fnRes' = [plan |-> fnRes.plan, restore |-> fnRes.restore,
                 analysis |-> folder_matcher_analysis(fnArgs.folder, fnArgs.path)]
    /\ Goto("done")
    /\ UNCHANGED <<prog, fnArgs, otherThanFn>>

NextMatch == MatchPlan \/ MatchRestore \/ MatchAnalysis

SpecMatch == InitMatch /\ [][NextMatch]_vars

\* the folder without its trailing '/' characters: the prefix of it that
\* does not end in '/' and is followed by '/' only
WithoutTrailingSlashes(folder) ==
    CHOOSE f \in {SubSeq(folder, 1, k) : k \in 0..Len(folder)} :
        /\ f = <<>> \/ f[Len(f)] # "/"
        /\ \A i \in (Len(f) + 1)..Len(folder) : folder[i] = "/"

\* path is the folder, or goes on after the folder with a '/'
ComponentBoundaryMatch(f, path) ==
    \/ path = f
    \/ /\ Len(path) > Len(f)
       /\ \A i \in 1..Len(f) : path[i] = f[i]
       /\ path[Len(f) + 1] = "/"

\* C13: for every folder (after stripping trailing '/') and every path,
\* folder_matcher(folder)(path) is true iff path = folder or path starts with
\* folder + '/', case-sensitively ('tv/Lib' does not match 'tv/Library/x');
\* with no folder every path matches; and the copies of recovery_plan,
\* recovery_restore and recovery_analysis give the same result
C13_FolderFilterIsComponentBoundary ==
    (prog = "folder_matcher" /\ pc = "done") =>
        LET expected ==
                IF fnArgs.folder = None THEN TRUE
                ELSE ComponentBoundaryMatch(WithoutTrailingSlashes(fnArgs.folder),
                                            fnArgs.path)
        IN  /\ fnRes.plan = expected
            /\ fnRes.restore = expected
            /\ fnRes.analysis = expected
            /\ (fnArgs.folder = ExampleFolder /\ fnArgs.path = ExamplePath)
                  => ~fnRes.plan

\* the three copies were asked whether 'tv/Lib/' matches 'tv/Library/x' and
\* all said no
C13_Witness ==
    /\ prog = "folder_matcher" /\ pc = "done"
    /\ fnArgs = [folder |-> ExampleFolder \o <<"/">>, path |-> ExamplePath]
    /\ fnRes = [plan |-> FALSE, restore |-> FALSE, analysis |-> FALSE]

(***************************************************************************)
(* The toolkit: a run of any one of the scripts                            *)
(***************************************************************************)
Init == InitA \/ InitPlan \/ InitRestore \/ InitAnalysis

Next == NextA \/ NextPlan \/ NextRestore \/ NextAnalysis

Spec == Init /\ [][Next]_vars

(***************************************************************************)
(* Properties of the toolkit                                               *)
(***************************************************************************)
\* C9: a run with a valid configuration whose input yields no qualifying
\* record (no in-window deletion in the history the service answers with; no
\* non-blank filter-matching path in the list) ends with exit code 0 and has
\* created its output files, empty
C9_NothingToDoIsSuccess ==
    pc = "exit" =>
        /\ (/\ IsA /\ aArgs.api_key /\ aWindow # None
            /\ crash # "HTTPError"
            /\ IdsOf(aFeed, IsWindowDeletion) = {})
              => /\ exitCode = 0
                 /\ aFiles = [missing |-> <<>>, restored |-> <<>>]
        /\ (/\ IsPlan /\ pArgs.input_isfile /\ os_path_isabs(pArgs.base_path)
            /\ pBackupFile.isfile
            /\ \A i \in 1..Len(pInput) : ~Considered(pInput[i]))
              => /\ exitCode = 0
                 /\ PlanOpened
                 /\ \A k \in Streams : pOut[k] = <<>>
        /\ (/\ IsRestore /\ rArgs.input_isfile
            /\ os_path_isdir(rFs, rArgs.archive_path)
            /\ \A i \in 1..Len(rInput) : ~RestoreConsidered(rInput[i]))
              => /\ exitCode = 0
                 /\ {"confirmed", "missing"} \subseteq DOMAIN rOut
                 /\ \A k \in DOMAIN rOut : rOut[k] = <<>>

\* a required input of the run is missing or invalid
ConfigurationError ==
    \/ IsA /\ ~aArgs.api_key
    \/ IsPlan /\ (\/ ~pArgs.input_isfile
                  \/ ~os_path_isabs(pArgs.base_path)
                  \/ ~pBackupFile.isfile)
    \/ IsRestore /\ (\/ ~rArgs.input_isfile
                     \/ ~os_path_isdir(rFs, rArgs.archive_path))
    \/ IsAnalysis /\ (~anArgs.input_isfile \/ ~anBackupFile.isfile)

\* the run has processed no input line, created or truncated no output and
\* issued no service request
NothingDone ==
    /\ IsA => /\ aReqs = <<>> /\ aDeletions = <<>> /\ ~aOutDir
              /\ aFiles = [missing |-> None, restored |-> None]
    /\ IsPlan => pLine <= 1 /\ ~PlanOpened /\ ~pOutDir
    /\ IsRestore => rLine <= 1 /\ DOMAIN rOut = {} /\ rFsLog = <<>>
    /\ IsAnalysis => anLine <= 1 /\ ~anOutDir /\ anBook = <<>>

\* C10: with a required input missing or invalid (API key, input file list,
\* backup allowlist file, non-absolute base path, archive path that is not a
\* directory) the run processes no input line, creates or truncates no output
\* and issues no request, and it ends with a nonzero exit code
C10_ConfigurationErrorIsFatalFirst ==
    ConfigurationError =>
        /\ NothingDone
        /\ pc = "exit" => exitCode # 0
====
